---------------------------- MODULE Spec2Model ----------------------------
(*************************************************************************)
(* Verification model of the temperature scripts:                         *)
(*   - the rounding-ambiguity resolver of NWSTemperatureTracker           *)
(*     (Temperature_Prediction.py): nws_round,                            *)
(*     celsius_to_fahrenheit_range, interpret_5min_station_temp;          *)
(*   - parse_metar_time and scan (FAST_TEMP.py): the METAR timestamp and  *)
(*     T-field decode and the selection of the daily extremes.            *)
(*   - get_station_observations, get_today_high_low and                  *)
(*     monitor_multiple_stations (Temperature_Prediction.py), and         *)
(*     get_today_prediction and predict_multiple_locations                *)
(*     (Daily_Temp.py): the per-station and per-location loops;           *)
(*   - calculate_optimal_trading_time and check_if_ready_to_trade of      *)
(*     OptimalTradingTimeCalculator (Temp_Trading_Time.py).               *)
(*                                                                        *)
(* Numbers.  The code computes in binary floating point; the model uses   *)
(* exact rationals, written as integer numerators over a fixed            *)
(* denominator:                                                           *)
(*   - a Celsius reading is held in tenths of a degree (22.2 C = 222);    *)
(*   - a Fahrenheit value returned by the resolver is held in hundredths  *)
(*     (71.96 F = 7196), fine enough for t/10 * 9/5 + 32 and for the      *)
(*     midpoint (min + max) / 2.                                          *)
(* Every comparison the code makes on these values (truncation by int(),  *)
(* rounding, ==) is at least 1/18 away from its decision boundary or is   *)
(* on a value that binary floating point represents exactly (x.0, x.5),   *)
(* so the exact model takes the same branches as the code.                *)
(*************************************************************************)
EXTENDS Integers, Sequences, FiniteSets, TLC

-----------------------------------------------------------------------------
(* Bounds of the model *)

\* reported Celsius readings range over -CBelow .. CMax degrees
CBelow == 60
CMax == 60

\* original whole Fahrenheit readings range over -FBelow .. FMax degrees
FBelow == 80
FMax == 145

\* nws_round is exercised on every value n/10 with |n| <= RoundMax
RoundMax == 260

\* scan is given at most MaxRecords records at a time when the records are
\* drawn from the sampled texts (one record when every T-field is tried)
MaxRecords == 2

\* candidate lists handed to the classification are subsets of
\* ListBase .. ListBase + ListSpan
ListBase == 30
ListSpan == 4

-----------------------------------------------------------------------------
(* Arithmetic helpers *)

Abs(x) == IF x < 0 THEN -x ELSE x

\* int(n/d) of Python: truncation toward zero (d > 0)
Trunc(n, d) == IF n >= 0 THEN n \div d ELSE -((-n) \div d)

\* min() and max() of a non-empty list of integers
ListMin(s) == CHOOSE x \in {s[i] : i \in 1..Len(s)} :
                 \A y \in {s[i] : i \in 1..Len(s)} : x <= y
ListMax(s) == CHOOSE x \in {s[i] : i \in 1..Len(s)} :
                 \A y \in {s[i] : i \in 1..Len(s)} : x >= y

\* the ascending list of the members of a finite set of integers
RECURSIVE SetToSortedSeq(_)
SetToSortedSeq(S) ==
    IF S = {} THEN << >>
    ELSE LET m == CHOOSE x \in S : \A y \in S : x <= y
         IN  << m >> \o SetToSortedSeq(S \ {m})

-----------------------------------------------------------------------------
(* Rounding *)

\* int(Decimal(str(n/d)).quantize(Decimal('1'), rounding=ROUND_HALF_UP)):
\* decimal's ROUND_HALF_UP rounds the magnitude, ties away from zero.
\* (variants: int(value), which truncates; floor(value + 0.5), which rounds
\* every tie up)
nws_round_truncating(n, d) == Trunc(n, d)
nws_round_floor_half(n, d) == (2 * n + d) \div (2 * d)
nws_round(n, d) ==
    IF n >= 0 THEN (2 * n + d) \div (2 * d)
              ELSE -((2 * (-n) + d) \div (2 * d))

\* Python's built-in round(n/d): nearest integer, ties to the even one
round_half_even(n, d) ==
    LET q == n \div d
        r == n - q * d
    IN  IF 2 * r < d THEN q
        ELSE IF 2 * r > d THEN q + 1
        ELSE IF q % 2 = 0 THEN q ELSE q + 1

-----------------------------------------------------------------------------
(* The rounding-ambiguity resolver (Temperature_Prediction.py) *)

\* the naive conversion temp_c * 9/5 + 32 of get_station_observations;
\* temp_c in tenths of a degree Celsius, the result in hundredths of a
\* degree Fahrenheit
naive_fahrenheit(temp_c) == 18 * temp_c + 3200

\* range(int(f_min) - 2, int(f_max) + 3) with
\*   f_min = (temp_c - 0.5) * 9/5 + 32 = (9 t + 1555) / 50
\*   f_max = (temp_c + 0.5) * 9/5 + 32 = (9 t + 1645) / 50   (t in tenths)
\* (variant: range(int(f_min) + 1, int(f_max) + 1), which takes int() for a
\* floor and drops the margin)
search_window_no_margin(temp_c) ==
    (Trunc(9 * temp_c + 1555, 50) + 1) .. Trunc(9 * temp_c + 1645, 50)
search_window(temp_c) ==
    (Trunc(9 * temp_c + 1555, 50) - 2) .. (Trunc(9 * temp_c + 1645, 50) + 2)

\* the rounding applied to the Celsius conversion inside the loop: "nws" is
\* self.nws_round, as written; "even" is the built-in round()
round_by(convention, n, d) ==
    IF convention = "nws" THEN nws_round(n, d) ELSE round_half_even(n, d)

\* the loop of celsius_to_fahrenheit_range under a rounding convention:
\* every f of the window, in ascending order, whose Celsius conversion
\* (f - 32) * 5/9 rounds to temp_c
candidates_by(convention, temp_c) ==
    SetToSortedSeq({f \in search_window(temp_c) :
                      10 * round_by(convention, 5 * (f - 32), 9) = temp_c})

\* (variants: the conversion of a candidate compared with the reading
\* rounded to a whole degree; every value of the window taken as candidate)
celsius_to_fahrenheit_range_rounded(temp_c) ==
    SetToSortedSeq({f \in search_window(temp_c) :
                      nws_round(5 * (f - 32), 9) = nws_round(temp_c, 10)})
celsius_to_fahrenheit_range_unfiltered(temp_c) ==
    SetToSortedSeq(search_window(temp_c))
celsius_to_fahrenheit_range(temp_c) == candidates_by("nws", temp_c)

\* the confidence tier of a non-empty candidate list
\* (variants: "<" for "<=" in both tests; "==" for "<=" in the first test)
confidence_strict(min_f, max_f) ==
    IF max_f - min_f < 1 THEN "high"
    ELSE IF max_f - min_f < 2 THEN "medium"
    ELSE "low"
confidence_exact_one(min_f, max_f) ==
    IF max_f - min_f = 1 THEN "high"
    ELSE IF max_f - min_f <= 2 THEN "medium"
    ELSE "low"
confidence_of(min_f, max_f) ==
    IF max_f - min_f <= 1 THEN "high"
    ELSE IF max_f - min_f <= 2 THEN "medium"
    ELSE "low"

\* likely_f = (min_f + max_f) / 2, in hundredths of a degree
\* (variant: the integer division (min_f + max_f) // 2)
likely_floor_div(min_f, max_f) == 100 * ((min_f + max_f) \div 2)
likely_of(min_f, max_f) == 50 * (min_f + max_f)

\* the fallback of interpret_5min_station_temp for an empty candidate list
\* (variant: the fallback reported with confidence 'high')
fallback_high(temp_f_reported) ==
    [likely_f |-> temp_f_reported, min_f |-> temp_f_reported,
     max_f |-> temp_f_reported, confidence |-> "high"]
fallback_result(temp_f_reported) ==
    [likely_f |-> temp_f_reported, min_f |-> temp_f_reported,
     max_f |-> temp_f_reported, confidence |-> "low"]

\* interpret_5min_station_temp from the candidate list on: the returned
\* tuple (likely_f, min_f, max_f, confidence), temperatures in hundredths
interpret_candidates(possible, temp_f_reported) ==
    IF possible = << >>
    THEN fallback_result(temp_f_reported)
    ELSE LET min_f == ListMin(possible)
             max_f == ListMax(possible)
         IN  [likely_f   |-> likely_of(min_f, max_f),
              min_f      |-> 100 * min_f,
              max_f      |-> 100 * max_f,
              confidence |-> confidence_of(min_f, max_f)]

interpret_5min_station_temp(temp_c, temp_f_reported) ==
    interpret_candidates(celsius_to_fahrenheit_range(temp_c), temp_f_reported)

-----------------------------------------------------------------------------
(* Calendar arithmetic of datetime (FAST_TEMP.py) *)

\* A timestamp is a record [year, month, day, hour, minute]; the reference
\* time now = datetime.utcnow() has a second field as well.

IsLeap(y) == (y % 4 = 0 /\ y % 100 # 0) \/ y % 400 = 0

DaysInMonth(y, m) ==
    IF m = 2 THEN (IF IsLeap(y) THEN 29 ELSE 28)
    ELSE IF m \in {4, 6, 9, 11} THEN 30
    ELSE 31

RECURSIVE DaysBeforeMonth(_, _)
DaysBeforeMonth(y, m) ==
    IF m = 1 THEN 0 ELSE DaysBeforeMonth(y, m - 1) + DaysInMonth(y, m - 1)

\* date.toordinal(): the number of the day, 0001-01-01 being day 1
Ordinal(y, m, d) ==
    365 * (y - 1) + ((y - 1) \div 4) - ((y - 1) \div 100) + ((y - 1) \div 400)
        + DaysBeforeMonth(y, m) + d

\* whether datetime(y, m, d, h, mi, 0) is a date and time (it raises
\* ValueError otherwise)
ValidDateTime(y, m, d, h, mi) ==
    /\ m \in 1 .. 12
    /\ d \in 1 .. DaysInMonth(y, m)
    /\ h \in 0 .. 23
    /\ mi \in 0 .. 59

\* minutes from 0001-01-01T00:00 to the timestamp
Minutes(dt) ==
    (Ordinal(dt.year, dt.month, dt.day) - 1) * 1440 + dt.hour * 60 + dt.minute

\* (dt - now).days: whole days, rounded down, from now to dt
timedelta_days(dt, now) ==
    ((Minutes(dt) - Minutes(now)) * 60 - now.second) \div 86400

\* utc_to_local(utc_time, -5).date(), as the number of the day
est_date(dt) == ((Minutes(dt) - 300) \div 1440) + 1

\* (datetime.utcnow() + timedelta(hours=-5)).date(), as the number of the day
est_today(now) == ((Minutes(now) - 300) \div 1440) + 1

\* the clock time of utc_to_et / format_local_time (EST), in minutes
\* after midnight
est_clock(dt) == (Minutes(dt) - 300) % 1440

-----------------------------------------------------------------------------
(* parse_metar_time (FAST_TEMP.py) *)

\* The raw text of a report is held by what the two regular expressions
\* find in it:
\*   time_group: << dd, hh, mm >>, the first match of \b(\d{2})(\d{2})(\d{2})Z\b,
\*               or NoGroup;
\*   tfield:     << s, ddd >>, the first match of T([01])(\d{3}), or NoField.
NoGroup == << >>
NoField == << >>

\* the same day, hour and minute in the month before now's
previous_month(now, day, hour, minute) ==
    IF now.month = 1
    THEN [year |-> now.year - 1, month |-> 12, day |-> day,
          hour |-> hour, minute |-> minute]
    ELSE [year |-> now.year, month |-> now.month - 1, day |-> day,
          hour |-> hour, minute |-> minute]

\* (variant: without the except clause, a date that does not exist in the
\* month of now is not retried in the month before)
parse_metar_time_no_fallback(raw_metar, now) ==
    IF raw_metar.time_group = NoGroup
    THEN [kind |-> "None"]
    ELSE LET day    == raw_metar.time_group[1]
             hour   == raw_metar.time_group[2]
             minute == raw_metar.time_group[3]
             dt     == [year |-> now.year, month |-> now.month, day |-> day,
                        hour |-> hour, minute |-> minute]
             prev   == previous_month(now, day, hour, minute)
         IN  IF ~ValidDateTime(now.year, now.month, day, hour, minute)
             THEN [kind |-> "ValueError"]
             ELSE IF ~(timedelta_days(dt, now) > 15)
             THEN [kind |-> "time", time |-> dt]
             ELSE IF ValidDateTime(prev.year, prev.month, day, hour, minute)
                  THEN [kind |-> "time", time |-> prev]
                  ELSE [kind |-> "ValueError"]

\* (variant: the future rule applied from "(dt - now).days > 16" on)
parse_metar_time_days_over_16(raw_metar, now) ==
    IF raw_metar.time_group = NoGroup
    THEN [kind |-> "None"]
    ELSE LET day    == raw_metar.time_group[1]
             hour   == raw_metar.time_group[2]
             minute == raw_metar.time_group[3]
             dt     == [year |-> now.year, month |-> now.month, day |-> day,
                        hour |-> hour, minute |-> minute]
             prev   == previous_month(now, day, hour, minute)
             prevOk == ValidDateTime(prev.year, prev.month, day, hour, minute)
         IN  IF /\ ValidDateTime(now.year, now.month, day, hour, minute)
                /\ ~(timedelta_days(dt, now) > 16)
             THEN [kind |-> "time", time |-> dt]
             ELSE IF prevOk
                  THEN [kind |-> "time", time |-> prev]
                  ELSE [kind |-> "ValueError"]

\* the outcome of parse_metar_time(raw_metar) at the reference time now:
\*   [kind |-> "None"]               no time group in the text
\*   [kind |-> "time", time |-> dt]  the timestamp returned
\*   [kind |-> "ValueError"]         the exception that leaves the function
\* A ValueError raised in the try block (by the first datetime or by the
\* previous-month datetime of the future rule) is caught by the except
\* clause, which builds the previous-month datetime, and that one is not
\* caught.
parse_metar_time(raw_metar, now) ==
    IF raw_metar.time_group = NoGroup
    THEN [kind |-> "None"]
    ELSE LET day    == raw_metar.time_group[1]
             hour   == raw_metar.time_group[2]
             minute == raw_metar.time_group[3]
             dt     == [year |-> now.year, month |-> now.month, day |-> day,
                        hour |-> hour, minute |-> minute]
             prev   == previous_month(now, day, hour, minute)
             prevOk == ValidDateTime(prev.year, prev.month, day, hour, minute)
         IN  IF /\ ValidDateTime(now.year, now.month, day, hour, minute)
                /\ ~(timedelta_days(dt, now) > 15)
             THEN [kind |-> "time", time |-> dt]
             ELSE IF prevOk
                  THEN [kind |-> "time", time |-> prev]
                  ELSE [kind |-> "ValueError"]

-----------------------------------------------------------------------------
(* scan (FAST_TEMP.py) *)

\* A record o of the METAR API is a record with the keys it carries:
\* rawOb, the raw text, and reportTime, a timestamp.  Either key can be
\* missing.
EmptyText == [tfield |-> NoField, time_group |-> NoGroup]

\* o.get('rawOb', '')
raw_ob_of(o) == IF "rawOb" \in DOMAIN o THEN o.rawOb ELSE EmptyText

\* c = int(m.group(2)) / 10.0, negated for the sign digit 1; in tenths
\* (variant: the sign digit ignored)
tfield_unsigned(tfield) == tfield[2]
tfield_celsius(tfield) == IF tfield[1] = 1 THEN -tfield[2] ELSE tfield[2]

\* true = round(f) with f = c * 9/5 + 32, whole degrees Fahrenheit
true_of(c) == round_half_even(9 * c + 1600, 50)

\* displayed = round(round(c) * 9/5 + 32, 1), in tenths of a degree
displayed_of(c) == 18 * round_half_even(c, 10) + 320

\* one pass of the decode loop over the record o:
\*   [kind |-> "skip"]              no T-field, nothing appended
\*   [kind |-> "obs", obs |-> ...]  the observation appended to obs
\*   [kind |-> "raise", error |-> e] the exception that leaves the loop
decode_record(o, now) ==
    LET raw_ob == raw_ob_of(o)
    IN  IF raw_ob.tfield = NoField
        THEN [kind |-> "skip"]
        ELSE LET c      == tfield_celsius(raw_ob.tfield)
                 parsed == parse_metar_time(raw_ob, now)
             IN  IF parsed.kind = "ValueError"
                 THEN [kind |-> "raise", error |-> "ValueError"]
                 ELSE IF parsed.kind = "None" /\ "reportTime" \notin DOMAIN o
                 THEN [kind |-> "raise", error |-> "KeyError"]
                 ELSE [kind |-> "obs",
                       obs  |-> [true      |-> true_of(c),
                                 displayed |-> displayed_of(c),
                                 temp_c    |-> c,
                                 utc_time  |-> IF parsed.kind = "time"
                                               THEN parsed.time
                                               ELSE o.reportTime,
                                 raw_text  |-> raw_ob]]

\* the decode loop over data[i ..], obs being the list built so far:
\* [error |-> e or "", obs |-> the list when the loop ends or is left]
RECURSIVE decode_from(_, _, _, _)
decode_from(data, i, obs, now) ==
    IF i > Len(data)
    THEN [error |-> "", obs |-> obs]
    ELSE LET step == decode_record(data[i], now)
         IN  IF step.kind = "raise"
             THEN [error |-> step.error, obs |-> obs]
             ELSE IF step.kind = "skip"
             THEN decode_from(data, i + 1, obs, now)
             ELSE decode_from(data, i + 1, Append(obs, step.obs), now)

RECURSIVE first_best(_, _, _, _)
\* max(s, key) / min(s, key) of Python for a non-empty list: the first
\* member no later member beats; sign = 1 for max, -1 for min, keys[i] the
\* key of s[i]
first_best(keys, i, best, sign) ==
    IF i > Len(keys) THEN best
    ELSE IF sign * keys[i] > sign * keys[best]
    THEN first_best(keys, i + 1, i, sign)
    ELSE first_best(keys, i + 1, best, sign)

\* last_obs compares the utc_time strings; all are ISO texts of one format,
\* whose order is the order of the instants
\* (variant of max_by_true: the comparison of the key reversed)
max_by_true_reversed(s) ==
    s[first_best([i \in 1 .. Len(s) |-> s[i].true], 2, 1, -1)]
max_by_true(s) == s[first_best([i \in 1 .. Len(s) |-> s[i].true], 2, 1, 1)]
min_by_true(s) == s[first_best([i \in 1 .. Len(s) |-> s[i].true], 2, 1, -1)]
max_by_time(s) ==
    s[first_best([i \in 1 .. Len(s) |-> Minutes(s[i].utc_time)], 2, 1, 1)]

\* the observations of the target EST date
on_target_date(obs, target_date) ==
    SelectSeq(obs, LAMBDA o : est_date(o.utc_time) = target_date)

\* the observations of the last 12 hours: obs_time >= est_now - 12 hours;
\* the clock is read a second time for est_now, and the model takes the two
\* readings of one call to be the same instant
in_last_12_hours(obs, now) ==
    SelectSeq(obs, LAMBDA o :
        (Minutes(o.utc_time) - Minutes(now) + 720) * 60 >= now.second)

NoDate == 0

\* scan(station_id, trade_date = trade_date) when the API returns data and
\* the clock reads now; trade_date is a day number or NoDate for None
scan(station_id, data, now, trade_date) ==
    LET target_date == IF trade_date = NoDate THEN est_today(now)
                       ELSE trade_date
        decoded     == decode_from(data, 1, << >>, now)
        obs         == decoded.obs
        day_obs     == on_target_date(obs, target_date)
        today_obs   == IF day_obs # << >> THEN day_obs
                       ELSE in_last_12_hours(obs, now)
    IN  IF decoded.error # ""
        THEN [ERROR |-> decoded.error, station |-> station_id]
        ELSE IF obs = << >>
        THEN [ERROR |-> "No T-field data found", station |-> station_id]
        ELSE IF today_obs = << >>
        THEN [ERROR |-> "No observations", station |-> station_id]
        ELSE LET max_obs  == max_by_true(today_obs)
                 min_obs  == min_by_true(today_obs)
                 last_obs == max_by_time(today_obs)
             IN  [station    |-> station_id,
                  date       |-> target_date,
                  timezone   |-> "EST",
                  tz_offset  |-> -5,
                  max_obs    |-> max_obs,
                  min_obs    |-> min_obs,
                  last_obs   |-> last_obs,
                  all_obs    |-> today_obs,
                  MAX_TRUE   |-> max_obs.true,
                  MAX_MARKET |-> max_obs.displayed,
                  MAX_EDGE   |-> 10 * max_obs.true - max_obs.displayed,
                  MAX_TIME_ET |-> est_clock(max_obs.utc_time),
                  MAX_TIME_LOCAL |-> est_clock(max_obs.utc_time),
                  MAX_OPPORTUNITY |->
                      Abs(10 * max_obs.true - max_obs.displayed) >= 5,
                  MIN_TRUE   |-> min_obs.true,
                  MIN_MARKET |-> min_obs.displayed,
                  MIN_EDGE   |-> 10 * min_obs.true - min_obs.displayed,
                  MIN_TIME_ET |-> est_clock(min_obs.utc_time),
                  MIN_TIME_LOCAL |-> est_clock(min_obs.utc_time),
                  MIN_OPPORTUNITY |->
                      Abs(10 * min_obs.true - min_obs.displayed) >= 5,
                  LAST_OBS_ET |-> est_clock(last_obs.utc_time),
                  LAST_OBS_LOCAL |-> est_clock(last_obs.utc_time),
                  TOTAL_OBS  |-> Len(today_obs)]

-----------------------------------------------------------------------------
(* The station pipeline of NWSTemperatureTracker (Temperature_Prediction.py) *)

\* None of Python, null of JSON; a value v that can be null is held as << v >>
Null == << >>

\* self.station_types.get(station_id, 'unknown')
station_types(station_id) ==
    IF station_id = "KNYC" THEN "hourly"
    ELSE IF station_id \in {"KMDW", "KLAX", "KPHL", "KAUS", "KSEA", "KDEN",
                            "KDCA", "KBOS", "KMIA", "KHOU"}
    THEN "5-minute"
    ELSE "unknown"

\* self.utc_offsets.get(station_id, -6), in hours
utc_offsets(station_id) ==
    IF station_id \in {"KNYC", "KBOS", "KDCA", "KPHL", "KMIA"} THEN -5
    ELSE IF station_id = "KDEN" THEN -7
    ELSE IF station_id \in {"KLAX", "KSEA"} THEN -8
    ELSE -6

\* (variant: the resolver applied to every station that is not typed
\* 'hourly', a station absent from the type table included)
obs_data_of_unless_hourly(station_id, temp_c, timestamp) ==
    LET station_type    == station_types(station_id)
        reported        == naive_fahrenheit(temp_c)
        interpreted     == interpret_5min_station_temp(temp_c, reported)
    IN  [timestamp_utc   |-> timestamp,
         timestamp_local |-> Minutes(timestamp) + 60 * utc_offsets(station_id),
         temp_c          |-> temp_c,
         temp_f_reported |-> reported,
         station_type    |-> station_type,
         temp_f_likely   |-> IF station_type # "hourly"
                             THEN interpreted.likely_f ELSE reported,
         temp_f_min      |-> IF station_type # "hourly"
                             THEN interpreted.min_f ELSE reported,
         temp_f_max      |-> IF station_type # "hourly"
                             THEN interpreted.max_f ELSE reported,
         temp_confidence |-> IF station_type # "hourly"
                             THEN interpreted.confidence ELSE "high"]

\* obs_data of one feature whose temperature value is temp_c (tenths of a
\* degree) and whose timestamp is timestamp; local times are minutes from
\* 0001-01-01T00:00, Fahrenheit values hundredths of a degree
obs_data_of(station_id, temp_c, timestamp) ==
    LET station_type    == station_types(station_id)
        reported        == naive_fahrenheit(temp_c)
        interpreted     == interpret_5min_station_temp(temp_c, reported)
    IN  [timestamp_utc   |-> timestamp,
         timestamp_local |-> Minutes(timestamp) + 60 * utc_offsets(station_id),
         temp_c          |-> temp_c,
         temp_f_reported |-> reported,
         station_type    |-> station_type,
         temp_f_likely   |-> IF station_type = "5-minute"
                             THEN interpreted.likely_f ELSE reported,
         temp_f_min      |-> IF station_type = "5-minute"
                             THEN interpreted.min_f ELSE reported,
         temp_f_max      |-> IF station_type = "5-minute"
                             THEN interpreted.max_f ELSE reported,
         temp_confidence |-> IF station_type = "5-minute"
                             THEN interpreted.confidence ELSE "high"]

\* the loop over data['features']: a feature is a record with the key
\* value (props['temperature']['value'], << t >> or Null) and, unless the
\* API left it out, the key timestamp; a null temperature is skipped before
\* the timestamp is read
RECURSIVE observations_from(_, _, _, _)
observations_from(station_id, features, i, observations) ==
    IF i > Len(features)
    THEN [error |-> "", observations |-> observations]
    ELSE IF features[i].value = Null
    THEN observations_from(station_id, features, i + 1, observations)
    ELSE IF "timestamp" \notin DOMAIN features[i]
    THEN [error |-> "KeyError", observations |-> observations]
    ELSE observations_from(station_id, features, i + 1,
             Append(observations,
                    obs_data_of(station_id, features[i].value[1],
                                features[i].timestamp)))

\* df.sort_values('timestamp_local')
RECURSIVE sort_values(_)
sort_values(observations) ==
    IF observations = << >> THEN << >>
    ELSE LET x    == Head(observations)
             rest == sort_values(Tail(observations))
         IN  SelectSeq(rest, LAMBDA o : o.timestamp_local < x.timestamp_local)
                 \o << x >>
                 \o SelectSeq(rest,
                        LAMBDA o : o.timestamp_local >= x.timestamp_local)

\* get_station_observations(station_id): the data frame, as the list of its
\* rows, for an answer of the observation API, which is
\*   [kind |-> "raise"]                       the request raised (connection
\*                                            error, timeout, HTTP error)
\*   [kind |-> "json"]                        JSON without 'features'
\*   [kind |-> "json", features |-> << .. >>] JSON with the features
\* every exception is caught and gives the empty frame
get_station_observations(station_id, answer) ==
    IF answer.kind = "raise" \/ "features" \notin DOMAIN answer
    THEN << >>
    ELSE LET parsed == observations_from(station_id, answer.features, 1, << >>)
         IN  IF parsed.error # "" THEN << >>
             ELSE sort_values(parsed.observations)

\* the column col of the rows, as a list
Column(rows, col) == [i \in 1 .. Len(rows) |-> rows[i][col]]

\* rows.loc[rows[col].idxmax()] and rows.loc[rows[col].idxmin()]: the first
\* row holding the greatest (least) value of the column
row_idxmax(rows, col) == rows[first_best(Column(rows, col), 2, 1, 1)]
row_idxmin(rows, col) == rows[first_best(Column(rows, col), 2, 1, -1)]

\* get_today_high_low(station_id, station_name) from the data frame df that
\* get_station_observations returned, today being datetime.now().date() as
\* a day number: [kind |-> "None"], or [kind |-> "result", ...] with the
\* keys of the returned dictionary
get_today_high_low(station_id, station_name, df, today) ==
    IF df = << >>
    THEN [kind |-> "None"]
    ELSE LET station_type == station_types(station_id)
             of_today   == SelectSeq(df, LAMBDA o :
                               (o.timestamp_local \div 1440) + 1 = today)
             today_data == IF of_today = << >> THEN df ELSE of_today
             key        == IF station_type = "hourly" THEN "temp_f_reported"
                           ELSE "temp_f_likely"
             high_temp  == ListMax(Column(today_data, key))
             low_temp   == ListMin(Column(today_data, key))
             high_range_min ==
                 IF station_type = "hourly" THEN high_temp
                 ELSE ListMax(Column(today_data, "temp_f_min"))
             high_range_max ==
                 IF station_type = "hourly" THEN high_temp + 200
                 ELSE ListMax(Column(today_data, "temp_f_max")) + 100
             low_range_min ==
                 IF station_type = "hourly" THEN low_temp
                 ELSE ListMin(Column(today_data, "temp_f_min"))
             low_range_max ==
                 IF station_type = "hourly" THEN low_temp
                 ELSE ListMin(Column(today_data, "temp_f_max"))
         IN  [kind              |-> "result",
              station           |-> station_name,
              station_id        |-> station_id,
              station_type      |-> station_type,
              date              |-> today,
              last_observation  |->
                  today_data[Len(today_data)].timestamp_local,
              high_observed     |-> high_temp,
              high_time         |-> row_idxmax(today_data, key).timestamp_local,
              high_range_min    |-> high_range_min,
              high_range_max    |-> high_range_max,
              high_rounded_low  |-> nws_round(high_range_min, 100),
              high_rounded_high |-> nws_round(high_range_max, 100),
              low_observed      |-> low_temp,
              low_time          |-> row_idxmin(today_data, key).timestamp_local,
              low_range_min     |-> low_range_min,
              low_range_max     |-> low_range_max,
              low_rounded       |-> nws_round(low_temp, 100)]

-----------------------------------------------------------------------------
(* KalshiTemperaturePredictor (Daily_Temp.py) *)

\* fetch_open_meteo_ecmwf() / fetch_open_meteo_multi_model() for an answer
\* of the forecast API to the request made with the coordinates the
\* predictor holds.  The answer is
\*   [kind |-> "raise"]    the request raised, or the JSON lacks the arrays
\*   [kind |-> "nodaily"]  JSON without 'daily' or without its 'time'
\*   [kind |-> "daily", date |-> d, high |-> h, low |-> l]
\*                         h, l: << v >>, v in tenths of a degree
\*                         Fahrenheit, or Null where the array holds null
\* The value returned is Null for None, else << dictionary >>.
fetch_open_meteo(answer, source) ==
    IF answer.kind # "daily" THEN Null
    ELSE << [date |-> answer.date, high |-> answer.high, low |-> answer.low,
             source |-> source] >>

\* round(np.mean(values)) for the weighted list of get_today_prediction:
\* ecmwf three times, multi twice; values in tenths, the result whole
\* degrees.  np.float64 rounds halves to even.
consensus(ecmwf, multi, key) ==
    IF ecmwf # Null /\ multi # Null
    THEN round_half_even(3 * ecmwf[1][key][1] + 2 * multi[1][key][1], 50)
    ELSE IF ecmwf # Null THEN round_half_even(ecmwf[1][key][1], 10)
    ELSE round_half_even(multi[1][key][1], 10)

\* np.std(values) of the same list, held by its square in units of 1/2500
\* square degree: the list has mean (3a + 2b)/5 and variance 6 (a - b)^2 / 25
spread(ecmwf, multi, key) ==
    IF ecmwf # Null /\ multi # Null
    THEN 6 * (ecmwf[1][key][1] - multi[1][key][1])
           * (ecmwf[1][key][1] - multi[1][key][1])
    ELSE 0

\* get_today_prediction() from what the two fetches returned, location
\* being self.location when the dictionary is built:
\*   [kind |-> "None"], [kind |-> "prediction", ...], or
\*   [kind |-> "TypeError"] when np.mean meets a null value
get_today_prediction(location, ecmwf, multi) ==
    IF ecmwf = Null /\ multi = Null
    THEN [kind |-> "None"]
    ELSE IF \/ ecmwf # Null /\ (ecmwf[1].high = Null \/ ecmwf[1].low = Null)
            \/ multi # Null /\ (multi[1].high = Null \/ multi[1].low = Null)
    THEN [kind |-> "TypeError"]
    ELSE [kind     |-> "prediction",
          location |-> location,
          date     |-> IF ecmwf # Null THEN ecmwf[1].date ELSE multi[1].date,
          high     |-> consensus(ecmwf, multi, "high"),
          low      |-> consensus(ecmwf, multi, "low"),
          high_std |-> spread(ecmwf, multi, "high"),
          low_std  |-> spread(ecmwf, multi, "low")]

-----------------------------------------------------------------------------
(* OptimalTradingTimeCalculator (Temp_Trading_Time.py) *)

\* the keys of self.stations
TradingStations ==
    {"KNYC", "KLAX", "KMDW", "KPHL", "KAUS", "KDEN", "KMIA", "KSFO", "KMSY",
     "KLAS"}

\* self.stations[station_id]: its type, and its utc_offset in hours
station_info(station_id) ==
    [type       |-> IF station_id = "KNYC" THEN "hourly" ELSE "5-minute",
     utc_offset |-> IF station_id \in {"KNYC", "KPHL", "KMIA"} THEN -5
                    ELSE IF station_id \in {"KMDW", "KAUS", "KMSY"} THEN -6
                    ELSE IF station_id = "KDEN" THEN -7
                    ELSE -8]

\* self.my_timezone_offset
my_timezone_offset == -5

\* the row of one feature in get_historical_observations; local times are
\* minutes from 0001-01-01T00:00, temp_f hundredths of a degree
historical_row(station_id, temp_c, timestamp) ==
    LET timestamp_local ==
            Minutes(timestamp) + 60 * station_info(station_id).utc_offset
    IN  [timestamp_local |-> timestamp_local,
         temp_f          |-> naive_fahrenheit(temp_c),
         date            |-> (timestamp_local \div 1440) + 1,
         hour            |-> (timestamp_local % 1440) \div 60,
         minute          |-> timestamp_local % 60]

\* the loop over data['features'] of get_historical_observations; features
\* are those of the tracker's observation API
RECURSIVE historical_from(_, _, _, _)
historical_from(station_id, features, i, observations) ==
    IF i > Len(features)
    THEN [error |-> "", observations |-> observations]
    ELSE IF features[i].value = Null
    THEN historical_from(station_id, features, i + 1, observations)
    ELSE IF "timestamp" \notin DOMAIN features[i]
    THEN [error |-> "KeyError", observations |-> observations]
    ELSE historical_from(station_id, features, i + 1,
             Append(observations,
                    historical_row(station_id, features[i].value[1],
                                   features[i].timestamp)))

\* get_historical_observations(station_id): the rows of the data frame for
\* an answer of the observation API; every exception gives the empty frame
get_historical_observations(station_id, answer) ==
    IF answer.kind = "raise" \/ "features" \notin DOMAIN answer
    THEN << >>
    ELSE LET parsed == historical_from(station_id, answer.features, 1, << >>)
         IN  IF parsed.error # "" THEN << >> ELSE parsed.observations

\* df['date'].unique(): the dates in the order of their first appearance
RECURSIVE unique_dates(_, _, _)
unique_dates(df, i, seen) ==
    IF i > Len(df) THEN seen
    ELSE IF \E j \in 1 .. Len(seen) : seen[j] = df[i].date
    THEN unique_dates(df, i + 1, seen)
    ELSE unique_dates(df, i + 1, Append(seen, df[i].date))

\* the fewest observations of one date that analyze_daily_extremes_timing
\* takes into account
MinDayRows == 10

\* the loop of analyze_daily_extremes_timing over the dates from the i-th on
RECURSIVE daily_extremes_from(_, _, _, _)
daily_extremes_from(df, dates, i, daily_extremes) ==
    IF i > Len(dates) THEN daily_extremes
    ELSE LET day_data == SelectSeq(df, LAMBDA o : o.date = dates[i])
             high     == row_idxmax(day_data, "temp_f")
             low      == row_idxmin(day_data, "temp_f")
         IN  IF Len(day_data) < MinDayRows
             THEN daily_extremes_from(df, dates, i + 1, daily_extremes)
             ELSE daily_extremes_from(df, dates, i + 1,
                      Append(daily_extremes,
                             [date        |-> dates[i],
                              high_temp   |-> high.temp_f,
                              high_hour   |-> high.hour,
                              high_minute |-> high.minute,
                              low_temp    |-> low.temp_f,
                              low_hour    |-> low.hour,
                              low_minute  |-> low.minute]))

\* analyze_daily_extremes_timing(station_id): Null for None, else << rows >>
analyze_daily_extremes_timing(station_id, answer) ==
    LET df == get_historical_observations(station_id, answer)
    IN  IF df = << >> THEN Null
        ELSE << daily_extremes_from(df, unique_dates(df, 1, << >>), 1, << >>) >>

\* the sum of a column
RECURSIVE ColumnSum(_, _)
ColumnSum(rows, col) ==
    IF rows = << >> THEN 0 ELSE rows[1][col] + ColumnSum(Tail(rows), col)

\* data_delay_minutes of a station type
data_delay_minutes(type) == IF type = "5-minute" THEN 15 ELSE 60

\* a clock time as f"{hour:02d}:{minute:02d}" prints it
Clock(hour, minute) == [hour |-> hour, minute |-> minute]

\* calculate_optimal_trading_time(station_id) for an answer of the
\* observation API: [kind |-> "KeyError"] when self.stations has no such
\* key, [kind |-> "None"], or [kind |-> "result", ...] with the keys of the
\* returned dictionary but station_name and the two standard deviations.
\* A mean of n values is the exact quotient sum / n, so int(mean) is
\* sum \div n and int(avg_hour * 60 + avg_minute + delay) is
\* (60 * hours + minutes) \div n + delay.
calculate_optimal_trading_time(station_id, answer) ==
    IF station_id \notin TradingStations
    THEN [kind |-> "KeyError"]
    ELSE LET extremes == analyze_daily_extremes_timing(station_id, answer)
         IN  IF extremes = Null \/ extremes = << << >> >>
             THEN [kind |-> "None"]
             ELSE
    LET extremes_df == extremes[1]
        n           == Len(extremes_df)
        high_hours  == ColumnSum(extremes_df, "high_hour")
        high_mins   == ColumnSum(extremes_df, "high_minute")
        low_hours   == ColumnSum(extremes_df, "low_hour")
        low_mins    == ColumnSum(extremes_df, "low_minute")
        delay       == data_delay_minutes(station_info(station_id).type)
        high_total_minutes == ((60 * high_hours + high_mins) \div n) + delay
        low_total_minutes  == ((60 * low_hours + low_mins) \div n) + delay
        timezone_diff ==
            my_timezone_offset - station_info(station_id).utc_offset
        my_high_total_minutes == high_total_minutes + timezone_diff * 60
        my_low_total_minutes  == low_total_minutes + timezone_diff * 60
    IN  [kind                |-> "result",
         station_id          |-> station_id,
         station_type        |-> station_info(station_id).type,
         avg_high_time       |-> Clock(high_hours \div n, high_mins \div n),
         avg_low_time        |-> Clock(low_hours \div n, low_mins \div n),
         data_delay_minutes  |-> delay,
         optimal_high_time   |-> Clock(high_total_minutes \div 60,
                                       high_total_minutes % 60),
         optimal_low_time    |-> Clock(low_total_minutes \div 60,
                                       low_total_minutes % 60),
         my_high_time        |-> Clock((my_high_total_minutes \div 60) % 24,
                                       my_high_total_minutes % 60),
         my_low_time         |-> Clock((my_low_total_minutes \div 60) % 24,
                                       my_low_total_minutes % 60),
         optimal_high_hour   |-> high_total_minutes \div 60,
         optimal_high_minute |-> high_total_minutes % 60,
         optimal_low_hour    |-> low_total_minutes \div 60,
         optimal_low_minute  |-> low_total_minutes % 60,
         my_high_hour        |-> (my_high_total_minutes \div 60) % 24,
         my_high_minute      |-> my_high_total_minutes % 60,
         days_analyzed       |-> n]

\* A reading of datetime.now() is held in seconds from the midnight that
\* begins the day of the call.
\* datetime.now().replace(hour=hour, minute=minute, second=0, microsecond=0)
\* for the reading clock: Null when replace raises ValueError
replace_clock(clock, hour, minute) ==
    IF hour \notin 0 .. 23 \/ minute \notin 0 .. 59 THEN Null
    ELSE << (clock \div 86400) * 86400 + 3600 * hour + 60 * minute >>

\* the tuple (flag, message) returned by check_if_ready_to_trade; wait is
\* int(wait_minutes) where the message names it
Verdict(flag, message, wait) ==
    [kind |-> "return", ready |-> flag, message |-> message, wait |-> wait]

\* the branch 'both' once low_time and high_time are built
ready_for_both(now, low_time, high_time) ==
    IF now >= high_time
    THEN Verdict(TRUE, "Safe to trade BOTH", 0)
    ELSE IF now >= low_time
    THEN Verdict(FALSE, "LOW ready, HIGH wait", Trunc(high_time - now, 60))
    ELSE Verdict(FALSE, "Wait for LOW", Trunc(low_time - now, 60))

\* check_if_ready_to_trade(station_id, trade_type) from the dictionary
\* result of calculate_optimal_trading_time: now is the reading of the clock
\* at "now = datetime.now()", later the reading from which the optimal times
\* are built
ready_to_trade(result, trade_type, now, later) ==
    IF result.kind = "KeyError" THEN [kind |-> "KeyError"]
    ELSE IF result.kind = "None"
    THEN Verdict(FALSE, "No timing data available", 0)
    ELSE LET low_time  == replace_clock(later, result.optimal_low_hour,
                                        result.optimal_low_minute)
             high_time == replace_clock(later, result.optimal_high_hour,
                                        result.optimal_high_minute)
         IN  IF trade_type = "low"
             THEN IF low_time = Null THEN [kind |-> "ValueError"]
                  ELSE IF now >= low_time[1]
                  THEN Verdict(TRUE, "Safe to trade LOW", 0)
                  ELSE Verdict(FALSE, "Wait for LOW",
                               Trunc(low_time[1] - now, 60))
             ELSE IF trade_type = "high"
             THEN IF high_time = Null THEN [kind |-> "ValueError"]
                  ELSE IF now >= high_time[1]
                  THEN Verdict(TRUE, "Safe to trade HIGH", 0)
                  ELSE Verdict(FALSE, "Wait for HIGH",
                               Trunc(high_time[1] - now, 60))
             ELSE IF low_time = Null \/ high_time = Null
                  THEN [kind |-> "ValueError"]
                  ELSE ready_for_both(now, low_time[1], high_time[1])

\* check_if_ready_to_trade(station_id, trade_type)
check_if_ready_to_trade(station_id, answer, trade_type, now, later) ==
    ready_to_trade(calculate_optimal_trading_time(station_id, answer),
                   trade_type, now, later)

-----------------------------------------------------------------------------
(* State *)

VARIABLES
    pc,               \* position of the session driving the calls
    f_orig,           \* << f >>, the whole Fahrenheit reading the station
                      \* recorded, or NoReading when only the Celsius is known
    temp_c,           \* props['temperature']['value'], tenths of a degree C
    temp_f_reported,  \* temp_c * 9/5 + 32, hundredths of a degree F
    possible_f,       \* possible_f of celsius_to_fahrenheit_range
    result,           \* tuple returned by interpret_5min_station_temp
    prev_possible,    \* possible_f of the call before the last one
    prev_result,      \* and the tuple that call returned
    prev_temp_c,      \* and the reading that call was given
    value,            \* argument of nws_round, in tenths
    rounded,          \* value returned by nws_round
    sweep_c,          \* reportedCelsius under comparison, whole degrees
    range_nws,        \* its candidates under nws_round
    range_even,       \* its candidates under round-half-to-even
    differs,          \* whether any compared reading gave two different lists
    scan_station,     \* station_id of the last call of scan
    scan_data,        \* the records the METAR API returned to it
    scan_now,         \* datetime.utcnow() during it
    scan_trade_date,  \* its trade_date, a day number or NoDate
    scan_obs,         \* its list obs when the decode loop ended or was left
    scan_result,      \* the dictionary it returned
    parse_now,        \* datetime.utcnow() during the last parse_metar_time
    parse_raw,        \* the raw text given to it
    parse_result,     \* what it returned or raised
    stations,         \* the list given to monitor_multiple_stations
    station_answers,  \* what the observation API answers for each entry
    today,            \* datetime.now().date(), as a day number
    results,          \* the list results of monitor_multiple_stations
    locations,        \* the list given to predict_multiple_locations
    self_location,    \* self.location of the predictor object
    self_lat,         \* self.lat
    self_lon,         \* self.lon
    predictions,      \* the list predictions of predict_multiple_locations
    w_pc,             \* for each entry of the list, the position of the
                      \* loop body that processes it
    w_df,             \* its local df (get_today_high_low)
    w_ecmwf,          \* its local ecmwf (get_today_prediction)
    w_multi,          \* its local multi
    w_result,         \* its local result / pred
    w_disturbed,      \* history: the entries during whose loop body the
                      \* predictor's fields were assigned for another entry
    trade_station,    \* station_id of the last call of the calculator
    trade_answer,     \* what the observation API answered during it
    trade_type,       \* trade_type of check_if_ready_to_trade
    trade_now,        \* now of check_if_ready_to_trade, in seconds
    trade_later,      \* the later reading of the clock in it
    trade_calc,       \* what calculate_optimal_trading_time returned
    trade_ready       \* what check_if_ready_to_trade returned or raised

vars == << pc, f_orig, temp_c, temp_f_reported, possible_f, result,
           prev_possible, prev_result, prev_temp_c, value, rounded,
           sweep_c, range_nws, range_even, differs,
           scan_station, scan_data, scan_now, scan_trade_date, scan_obs,
           scan_result, parse_now, parse_raw, parse_result,
           stations, station_answers, today, results,
           locations, self_location, self_lat, self_lon, predictions,
           w_pc, w_df, w_ecmwf, w_multi, w_result, w_disturbed,
           trade_station, trade_answer, trade_type, trade_now, trade_later,
           trade_calc, trade_ready >>

resolver_vars == << f_orig, temp_c, temp_f_reported, possible_f, result >>
history_vars  == << prev_possible, prev_result, prev_temp_c >>
round_vars    == << value, rounded >>
compare_vars  == << sweep_c, range_nws, range_even, differs >>
scan_vars     == << scan_station, scan_data, scan_now, scan_trade_date,
                    scan_obs, scan_result >>
parse_vars    == << parse_now, parse_raw, parse_result >>
trade_vars    == << trade_station, trade_answer, trade_type, trade_now,
                    trade_later, trade_calc, trade_ready >>
run_vars      == << stations, station_answers, today, results,
                    locations, self_location, self_lat, self_lon, predictions,
                    w_pc, w_df, w_ecmwf, w_multi, w_result, w_disturbed >>

NoReading == << >>
NoResult  == [likely_f |-> 0, min_f |-> 0, max_f |-> 0, confidence |-> "none"]

\* every Celsius reading of the model, in tenths of a degree
Readings == (-10 * CBelow) .. (10 * CMax)

\* the state before any call: of the single calls, of the two batch loops
QuietCalls ==
    /\ f_orig = NoReading
    /\ temp_c = 0
    /\ temp_f_reported = 0
    /\ possible_f = << >>
    /\ result = NoResult
    /\ prev_possible = << >>
    /\ prev_result = NoResult
    /\ prev_temp_c = 0
    /\ value = 0
    /\ rounded = 0
    /\ sweep_c = -CBelow
    /\ range_nws = << >>
    /\ range_even = << >>
    /\ differs = FALSE
    /\ scan_station = ""
    /\ scan_data = << >>
    /\ scan_now = [year |-> 2024, month |-> 2, day |-> 3,
                   hour |-> 10, minute |-> 0, second |-> 0]
    /\ scan_trade_date = NoDate
    /\ scan_obs = << >>
    /\ scan_result = [ERROR |-> "", station |-> ""]
    /\ parse_now = [year |-> 2024, month |-> 2, day |-> 3,
                    hour |-> 10, minute |-> 0, second |-> 0]
    /\ parse_raw = [tfield |-> NoField, time_group |-> NoGroup]
    /\ parse_result = [kind |-> "None"]
    /\ trade_station = ""
    /\ trade_answer = [kind |-> "raise"]
    /\ trade_type = "both"
    /\ trade_now = 0
    /\ trade_later = 0
    /\ trade_calc = [kind |-> "None"]
    /\ trade_ready = [kind |-> "None"]

\* the predictor object as KalshiTemperaturePredictor() constructs it
\* (Miami, 25.7617, -80.1918; coordinates in 1/10000 degree)
FreshPredictor ==
    /\ self_location = "Miami"
    /\ self_lat = 257617
    /\ self_lon = -801918

QuietRun ==
    /\ stations = << >>
    /\ station_answers = << >>
    /\ today = 0
    /\ results = << >>
    /\ locations = << >>
    /\ FreshPredictor
    /\ predictions = << >>
    /\ w_pc = << >>
    /\ w_df = << >>
    /\ w_ecmwf = << >>
    /\ w_multi = << >>
    /\ w_result = << >>
    /\ w_disturbed = {}

Quiet == QuietCalls /\ QuietRun

-----------------------------------------------------------------------------
(* Spec: one observation of a 5-minute station through the resolver *)

Init ==
    /\ pc = "idle"
    /\ Quiet

\* the observation API delivers a Celsius value; get_station_observations
\* derives temp_f_reported from it
ReportCelsius(t) ==
    /\ pc = "idle"
    /\ pc' = "observed"
    /\ f_orig' = NoReading
    /\ temp_c' = t
    /\ temp_f_reported' = naive_fahrenheit(t)
    /\ UNCHANGED << possible_f, result, history_vars, round_vars, compare_vars, scan_vars,
                    parse_vars, run_vars,
                    trade_vars >>

\* the station recorded the whole Fahrenheit value f and transmits its
\* Celsius conversion rounded to a whole degree
StationReading(f) ==
    /\ pc = "idle"
    /\ pc' = "observed"
    /\ f_orig' = << f >>
    /\ temp_c' = 10 * nws_round(5 * (f - 32), 9)
    /\ temp_f_reported' = naive_fahrenheit(10 * nws_round(5 * (f - 32), 9))
    /\ UNCHANGED << possible_f, result, history_vars, round_vars, compare_vars, scan_vars,
                    parse_vars, run_vars,
                    trade_vars >>

\* celsius_to_fahrenheit_range(temp_c)
CallRange ==
    /\ pc = "observed"
    /\ pc' = "ranged"
    /\ possible_f' = celsius_to_fahrenheit_range(temp_c)
    /\ UNCHANGED << f_orig, temp_c, temp_f_reported, result,
                    history_vars, round_vars, compare_vars, scan_vars,
                    parse_vars, run_vars,
                    trade_vars >>

\* interpret_5min_station_temp(temp_c, temp_f_reported)
CallInterpret ==
    /\ pc = "observed"
    /\ pc' = "interpreted"
    /\ possible_f' = celsius_to_fahrenheit_range(temp_c)
    /\ result' = interpret_5min_station_temp(temp_c, temp_f_reported)
    /\ UNCHANGED << f_orig, temp_c, temp_f_reported,
                    history_vars, round_vars, compare_vars, scan_vars,
                    parse_vars, run_vars,
                    trade_vars >>

\* the next observation of the loop
NextObservation ==
    /\ pc \in {"ranged", "interpreted"}
    /\ pc' = "idle"
    /\ f_orig' = NoReading
    /\ temp_c' = 0
    /\ temp_f_reported' = 0
    /\ possible_f' = << >>
    /\ result' = NoResult
    /\ UNCHANGED << history_vars, round_vars, compare_vars, scan_vars,
                    parse_vars, run_vars,
                    trade_vars >>

Next ==
    \/ \E t \in Readings : ReportCelsius(t)
    \/ \E f \in (-FBelow) .. FMax : StationReading(f)
    \/ CallRange
    \/ CallInterpret
    \/ NextObservation

Spec == Init /\ [][Next]_vars

-----------------------------------------------------------------------------
(* Properties of the resolver, checked under Spec *)

\* r is the integer nearest to n/d (d > 0), a tie going away from zero
NearestAwayFromZero(n, d, r) ==
    \/ 2 * Abs(n - r * d) < d
    \/ 2 * Abs(n - r * d) = d /\ Abs(r * d) > Abs(n)

Members(s) == {s[i] : i \in 1..Len(s)}

Resolved == pc \in {"ranged", "interpreted"}
WholeReading == temp_c % 10 = 0

\* C1 (resolver soundness): for a whole-degree reportedCelsius c every
\* candidate f returned by celsius_to_fahrenheit_range(c) is an integer whose
\* Celsius conversion (f - 32) * 5/9, rounded to the nearest integer with
\* ties away from zero, is c.
C1_Soundness ==
    (Resolved /\ WholeReading) =>
        \A f \in Members(possible_f) :
            /\ f \in Int
            /\ NearestAwayFromZero(5 * (f - 32), 9, temp_c \div 10)

C1_Witness ==
    /\ pc = "ranged"
    /\ temp_c = 10
    /\ possible_f = << 33, 34 >>

\* C2 (resolver non-emptiness): for a whole-degree reportedCelsius the
\* candidate list is not empty, and interpret_5min_station_temp returns
\* bounds taken from the candidates, not the empty-candidates fallback.
C2_NonEmpty ==
    (Resolved /\ WholeReading) =>
        /\ possible_f # << >>
        /\ pc = "interpreted" =>
              /\ \E f \in Members(possible_f) : result.min_f = 100 * f
              /\ \E f \in Members(possible_f) : result.max_f = 100 * f

C2_Witness ==
    /\ pc = "interpreted"
    /\ temp_c = -400
    /\ possible_f = << -40 >>
    /\ result.min_f = -4000

\* C3 (resolver completeness, round trip): when the station recorded the
\* whole Fahrenheit value f and c is its Celsius conversion rounded half
\* away from zero, f is one of the candidates of
\* celsius_to_fahrenheit_range(c); for c = 0 the candidates include 32.
C3_RoundTrip ==
    /\ (f_orig # NoReading /\ pc # "idle") =>
          /\ WholeReading
          /\ NearestAwayFromZero(5 * (f_orig[1] - 32), 9, temp_c \div 10)
    /\ (f_orig # NoReading /\ Resolved) => f_orig[1] \in Members(possible_f)
    /\ (Resolved /\ temp_c = 0) => 32 \in Members(possible_f)

C3_Witness ==
    /\ pc = "ranged"
    /\ f_orig = << -4 >>
    /\ temp_c = -200
    /\ -4 \in Members(possible_f)

\* C9 (empty-candidates fallback): when the candidate list of temp_c is
\* empty, interpret_5min_station_temp returns likely = min = max = the naive
\* conversion temp_c * 9/5 + 32 with confidence 'low'.
C9_Fallback ==
    (pc = "interpreted" /\ possible_f = << >>) =>
        /\ result.likely_f = 18 * temp_c + 3200
        /\ result.min_f = 18 * temp_c + 3200
        /\ result.max_f = 18 * temp_c + 3200
        /\ result.confidence = "low"

C9_Witness ==
    /\ pc = "interpreted"
    /\ temp_c = 222
    /\ possible_f = << >>
    /\ result.likely_f = 7196
    /\ result.confidence = "low"

-----------------------------------------------------------------------------
(* SpecClassify: interpret_5min_station_temp from its candidate list on,    *)
(* applied to every non-empty list of whole Fahrenheit values of a small     *)
(* range; the call before the last one is kept for comparison.               *)

CandidateLists ==
    {SetToSortedSeq(S) : S \in (SUBSET (ListBase .. (ListBase + ListSpan))) \ {{}}}

InitClassify ==
    /\ pc = "classify"
    /\ Quiet

ClassifyCall(possible) ==
    /\ pc = "classify"
    /\ prev_possible' = possible_f
    /\ prev_result' = result
    /\ possible_f' = possible
    /\ result' = interpret_candidates(possible, temp_f_reported)
    /\ UNCHANGED << pc, f_orig, temp_c, temp_f_reported, prev_temp_c,
                    round_vars, compare_vars, scan_vars, parse_vars, run_vars,
                    trade_vars >>

NextClassify == \E possible \in CandidateLists : ClassifyCall(possible)

SpecClassify == InitClassify /\ [][NextClassify]_vars

\* the width max - min of a non-empty list, stated by its extreme members
Width(s) ==
    CHOOSE w \in 0 .. (ListSpan + 1) :
        \E lo, hi \in Members(s) :
            /\ \A x \in Members(s) : lo <= x /\ x <= hi
            /\ w = hi - lo

\* C4 (confidence classification): for a non-empty candidate list the
\* confidence is 'high' when max - min <= 1, 'medium' when max - min = 2 and
\* 'low' when max - min >= 3.
C4_Tiers ==
    possible_f # << >> =>
        /\ Width(possible_f) <= 1 => result.confidence = "high"
        /\ Width(possible_f) = 2 => result.confidence = "medium"
        /\ Width(possible_f) >= 3 => result.confidence = "low"

C4_Witness ==
    /\ possible_f = << 30, 32 >>
    /\ result.confidence = "medium"
    /\ prev_possible = << 30, 31, 32, 33 >>
    /\ prev_result.confidence = "low"

\* high > medium > low
TierRank(c) == IF c = "high" THEN 2 ELSE IF c = "medium" THEN 1 ELSE 0

\* C5 (monotonic confidence): of two candidate lists, the one that is at
\* least as wide is never given a more confident tier than the other.
C5_Monotonic ==
    (possible_f # << >> /\ prev_possible # << >>) =>
        /\ Width(prev_possible) <= Width(possible_f) =>
              TierRank(result.confidence) <= TierRank(prev_result.confidence)
        /\ Width(possible_f) <= Width(prev_possible) =>
              TierRank(prev_result.confidence) <= TierRank(result.confidence)

C5_Witness ==
    /\ prev_possible = << 31 >>
    /\ possible_f = << 31, 32, 34 >>
    /\ prev_result.confidence = "high"
    /\ result.confidence = "low"

\* C6 (likely value): for a non-empty candidate list the first component
\* is exactly (min + max) / 2, the second the least and the third the
\* greatest candidate.
C6_Midpoint ==
    possible_f # << >> =>
        /\ 2 * result.likely_f = result.min_f + result.max_f
        /\ \E lo, hi \in Members(possible_f) :
              /\ \A x \in Members(possible_f) : lo <= x /\ x <= hi
              /\ result.min_f = 100 * lo
              /\ result.max_f = 100 * hi

C6_Witness ==
    /\ possible_f = << 31, 32 >>
    /\ result.likely_f = 3150
    /\ result.min_f = 3100
    /\ result.max_f = 3200

-----------------------------------------------------------------------------
(* SpecRound: nws_round applied to every value given in tenths *)

InitRound ==
    /\ pc = "round"
    /\ Quiet

RoundCall(n) ==
    /\ pc = "round"
    /\ value' = n
    /\ rounded' = nws_round(n, 10)
    /\ UNCHANGED << pc, resolver_vars, history_vars, compare_vars, scan_vars,
                    parse_vars, run_vars,
                    trade_vars >>

NextRound == \E n \in (-RoundMax) .. RoundMax : RoundCall(n)

SpecRound == InitRound /\ [][NextRound]_vars

\* C7 (round half away from zero): nws_round(k + 0.5) = k + 1 and
\* nws_round(-(k + 0.5)) = -(k + 1) for k >= 0, and a value that is no tie
\* goes to the nearest integer.
C7_HalfAwayFromZero ==
    /\ \A k \in 0 .. (RoundMax \div 10) :
          /\ value = 10 * k + 5 => rounded = k + 1
          /\ value = -(10 * k + 5) => rounded = -(k + 1)
    /\ value % 10 # 5 => 2 * Abs(value - 10 * rounded) < 10

C7_Witness ==
    /\ value = -25
    /\ rounded = -3

-----------------------------------------------------------------------------
(* SpecCompare: the loop of celsius_to_fahrenheit_range run with nws_round  *)
(* and with round-half-to-even on every whole reading, lowest to highest.    *)

InitCompare ==
    /\ pc = "sweep"
    /\ Quiet

CompareStep ==
    /\ pc = "sweep"
    /\ range_nws' = celsius_to_fahrenheit_range(10 * sweep_c)
    /\ range_even' = candidates_by("even", 10 * sweep_c)
    /\ differs' = (differs \/ celsius_to_fahrenheit_range(10 * sweep_c)
                                # candidates_by("even", 10 * sweep_c))
    /\ IF sweep_c < CMax
          THEN sweep_c' = sweep_c + 1 /\ pc' = "sweep"
          ELSE sweep_c' = sweep_c /\ pc' = "swept"
    /\ UNCHANGED << resolver_vars, history_vars, round_vars, scan_vars,
                    parse_vars, run_vars,
                    trade_vars >>

NextCompare == CompareStep

SpecCompare == InitCompare /\ [][NextCompare]_vars

\* C8 as stated (the rounding convention matters to the resolver): once
\* every whole reading has been compared, at least one gave a candidate
\* list under round-half-to-even that differs from the list under
\* round-half-away-from-zero.
C8_ConventionMatters == pc = "swept" => differs

\* C8 as amended: for every whole reportedCelsius the candidate list under
\* round-half-to-even is the list under round-half-away-from-zero (the
\* conversion (f - 32) * 5/9 of a whole f is never a tie), and it is the
\* list of the values whose conversion is nearest to the reading.
C8_SameCandidates ==
    /\ ~differs
    /\ range_nws = range_even
    /\ \A f \in Members(range_even) :
          \E c \in (-CBelow) .. CMax : 2 * Abs(5 * (f - 32) - 9 * c) < 9

C8_Witness ==
    /\ pc = "swept"
    /\ ~differs
    /\ range_nws = celsius_to_fahrenheit_range(10 * CMax)
    /\ range_nws # << >>

-----------------------------------------------------------------------------
(* SpecScan: calls of scan *)

Stations == {"KMIA", "KDEN"}

\* reference times: 2024-02-03T10:00:00Z, and 2024-03-01T02:00:30Z, when the
\* EST date is still February 29
ScanNows ==
    {[year |-> 2024, month |-> 2, day |-> 3, hour |-> 10, minute |-> 0,
      second |-> 0],
     [year |-> 2024, month |-> 3, day |-> 1, hour |-> 2, minute |-> 0,
      second |-> 30]}

\* trade_date: None, or 2024-02-02
TradeDates == {NoDate, Ordinal(2024, 2, 2)}

\* every T-field: sign digit 0 or 1, magnitude 000 .. 999
AllTFields == {<< sg, ddd >> : sg \in {0, 1}, ddd \in 0 .. 999}

\* sampled texts: without T-field, T0281 (28.1 C), T1025 (-2.5 C); without
\* time group, 030951Z, 022051Z, 292351Z, 032500Z (hour 25)
SampleTFields == {NoField, << 0, 281 >>, << 1, 25 >>}
SampleGroups == {NoGroup, << 3, 9, 51 >>, << 2, 20, 51 >>, << 29, 23, 51 >>,
                 << 3, 25, 0 >>}
SampleTexts ==
    {[tfield |-> t, time_group |-> g] : t \in SampleTFields, g \in SampleGroups}

\* a reportTime: 2024-02-03T09:00Z
SampleReportTime ==
    [year |-> 2024, month |-> 2, day |-> 3, hour |-> 9, minute |-> 0]

SampleRecords ==
    {[rawOb |-> x, reportTime |-> SampleReportTime] : x \in SampleTexts}
        \cup {[rawOb |-> x] : x \in SampleTexts}
        \cup {[reportTime |-> SampleReportTime]}

RECURSIVE ListsUpTo(_, _)
ListsUpTo(S, n) ==
    IF n = 0 THEN {<< >>}
    ELSE LET shorter == ListsUpTo(S, n - 1)
         IN  shorter \cup {Append(l, x) : l \in shorter, x \in S}

\* the responses of the METAR API: up to MaxRecords sampled records, or one
\* record carrying any T-field
Responses ==
    ListsUpTo(SampleRecords, MaxRecords)
        \cup {<< [rawOb |-> [tfield |-> t, time_group |-> << 3, 9, 51 >>],
                  reportTime |-> SampleReportTime] >> : t \in AllTFields}

InitScan ==
    /\ pc = "scan"
    /\ Quiet

\* Each run of the script makes one call of scan (report calls it once).

\* scan(station_id, trade_date = trade_date): the request succeeds and
\* returns data
ScanCall(station_id, data, now, trade_date) ==
    /\ pc = "scan"
    /\ pc' = "scanned"
    /\ scan_station' = station_id
    /\ scan_data' = data
    /\ scan_now' = now
    /\ scan_trade_date' = trade_date
    /\ scan_obs' = decode_from(data, 1, << >>, now).obs
    /\ scan_result' = scan(station_id, data, now, trade_date)
    /\ UNCHANGED << resolver_vars, history_vars, round_vars, compare_vars,
                    parse_vars, run_vars,
                    trade_vars >>

\* scan(station_id, trade_date = trade_date): requests.get or r.json()
\* raises, the except clause returns the ERROR dictionary
ScanRequestFails(station_id, now, trade_date) ==
    /\ pc = "scan"
    /\ pc' = "scanned"
    /\ scan_station' = station_id
    /\ scan_data' = << >>
    /\ scan_now' = now
    /\ scan_trade_date' = trade_date
    /\ scan_obs' = << >>
    /\ scan_result' = [ERROR |-> "RequestException", station |-> station_id]
    /\ UNCHANGED << resolver_vars, history_vars, round_vars, compare_vars,
                    parse_vars, run_vars,
                    trade_vars >>

Scan ==
    /\ pc = "scan"
    /\ \E station_id \in Stations, data \in Responses, now \in ScanNows,
          trade_date \in TradeDates :
            ScanCall(station_id, data, now, trade_date)

ScanFailure ==
    /\ pc = "scan"
    /\ \E station_id \in Stations, now \in ScanNows, trade_date \in TradeDates :
            ScanRequestFails(station_id, now, trade_date)

NextScan == Scan \/ ScanFailure

SpecScan == InitScan /\ [][NextScan]_vars

\* the records of data that carry a T-field
WithTField(data) ==
    SelectSeq(data, LAMBDA o : "rawOb" \in DOMAIN o /\ o.rawOb.tfield # NoField)

Succeeded == pc = "scanned" /\ "ERROR" \notin DOMAIN scan_result

\* C10 (T-field decode): every observation scan decodes comes from a record
\* whose text carries a T-field 'T' s ddd, and its temperature is ddd/10
\* degrees Celsius, negated when s = 1; unless the loop is left by an
\* exception there is one observation for each such record, in the order of
\* the records; a record without T-field gives none, neither in all_obs nor
\* as the daily maximum or minimum.
C10_TFieldDecode ==
    pc = "scanned" =>
        /\ \A i \in 1 .. Len(scan_obs) :
              /\ scan_obs[i].raw_text.tfield # NoField
              /\ scan_obs[i].raw_text.tfield[1] = 0 =>
                    scan_obs[i].temp_c = scan_obs[i].raw_text.tfield[2]
              /\ scan_obs[i].raw_text.tfield[1] = 1 =>
                    scan_obs[i].temp_c = -scan_obs[i].raw_text.tfield[2]
        /\ Len(scan_obs) <= Len(WithTField(scan_data))
        /\ \A i \in 1 .. Len(scan_obs) :
              scan_obs[i].raw_text = WithTField(scan_data)[i].rawOb
        /\ Succeeded =>
              /\ Len(scan_obs) = Len(WithTField(scan_data))
              /\ \A o \in Members(scan_result.all_obs)
                        \cup {scan_result.max_obs, scan_result.min_obs} :
                    /\ o \in Members(scan_obs)
                    /\ o.raw_text.tfield # NoField

\* T1025 decodes to -2.5 C; the record before it has no T-field and is in no
\* list
C10_Witness ==
    /\ Succeeded
    /\ Len(scan_data) = 2
    /\ scan_data[1].rawOb.tfield = NoField
    /\ scan_data[2].rawOb.tfield = << 1, 25 >>
    /\ Len(scan_obs) = 1
    /\ scan_obs[1].temp_c = -25
    /\ scan_result.TOTAL_OBS = 1
    /\ scan_result.min_obs.temp_c = -25

-----------------------------------------------------------------------------
(* SpecParse: calls of parse_metar_time *)

\* reference times: in every month of ParseYears (one of them a leap year),
\* on the days ParseDays, at 10:00:00 and at 02:00:30 UTC
ParseYears == {2023, 2024}
ParseDays == {1, 3, 16, 28}
ParseClocks == {<< 10, 0, 0 >>, << 2, 0, 30 >>}
ParseNows ==
    {[year |-> y, month |-> m, day |-> d,
      hour |-> c[1], minute |-> c[2], second |-> c[3]] :
        y \in ParseYears, m \in 1 .. 12, d \in ParseDays, c \in ParseClocks}

\* the six-digit groups: every day 00 .. GroupDayMax, hours and minutes
\* sampled, 24 and 60 among them
GroupDayMax == 32
GroupHours == {0, 3, 20, 23, 24}
GroupMinutes == {0, 51, 60}
ParseGroups ==
    {<< d, h, mi >> : d \in 0 .. GroupDayMax, h \in GroupHours,
                      mi \in GroupMinutes}

ParseTexts ==
    {[tfield |-> NoField, time_group |-> g] : g \in ParseGroups \cup {NoGroup}}

InitParse ==
    /\ pc = "parse"
    /\ Quiet

\* parse_metar_time(raw_metar) when the clock reads now
ParseCall(raw_metar, now) ==
    /\ pc = "parse"
    /\ pc' = "parsed"
    /\ parse_now' = now
    /\ parse_raw' = raw_metar
    /\ parse_result' = parse_metar_time(raw_metar, now)
    /\ UNCHANGED << resolver_vars, history_vars, round_vars, compare_vars,
                    scan_vars, run_vars,
                    trade_vars >>

NextParse ==
    /\ pc = "parse"
    /\ \E raw_metar \in ParseTexts, now \in ParseNows :
            ParseCall(raw_metar, now)

SpecParse == InitParse /\ [][NextParse]_vars

\* the call parsed a six-digit group
ParsedGroup == pc = "parsed" /\ parse_raw.time_group # NoGroup
GroupDay == parse_raw.time_group[1]
GroupHour == parse_raw.time_group[2]
GroupMinute == parse_raw.time_group[3]

\* hour 00 .. 23 and minute 00 .. 59
ClockInRange == GroupHour \in 0 .. 23 /\ GroupMinute \in 0 .. 59

\* the number of days of month m of year y, from the calendar
CalendarDays(y, m) ==
    IF m \in {4, 6, 9, 11} THEN 30
    ELSE IF m # 2 THEN 31
    ELSE IF (y % 4 = 0 /\ y % 100 # 0) \/ y % 400 = 0 THEN 29 ELSE 28

\* the call returned the group's day, hour and minute in the month before
\* the reference month, December of the year before when that is January
InPrecedingMonth ==
    /\ parse_result.kind = "time"
    /\ parse_result.time.day = GroupDay
    /\ parse_result.time.hour = GroupHour
    /\ parse_result.time.minute = GroupMinute
    /\ IF parse_now.month = 1
       THEN /\ parse_result.time.year = parse_now.year - 1
            /\ parse_result.time.month = 12
       ELSE /\ parse_result.time.year = parse_now.year
            /\ parse_result.time.month = parse_now.month - 1

\* C11 (nonexistent day): when the group's day of month, 29, 30 or 31, does
\* not exist in the reference month (hour and minute being in range),
\* parse_metar_time returns that day, hour and minute in the month before.
C11_NonexistentDay ==
    (/\ ParsedGroup
     /\ ClockInRange
     /\ GroupDay \in 29 .. 31
     /\ GroupDay > CalendarDays(parse_now.year, parse_now.month))
        => InPrecedingMonth

\* reference 2024-02-03T10:00:00Z and 300351Z give January 30, 03:51
C11_Witness ==
    /\ ParsedGroup
    /\ parse_now = [year |-> 2024, month |-> 2, day |-> 3,
                    hour |-> 10, minute |-> 0, second |-> 0]
    /\ parse_raw.time_group = << 30, 3, 51 >>
    /\ parse_result = [kind |-> "time",
                       time |-> [year |-> 2024, month |-> 1, day |-> 30,
                                 hour |-> 3, minute |-> 51]]

\* seconds from the reference time to the group read in the reference month
SecondsAhead ==
    (Ordinal(parse_now.year, parse_now.month, GroupDay)
        - Ordinal(parse_now.year, parse_now.month, parse_now.day)) * 86400
    + (GroupHour - parse_now.hour) * 3600
    + (GroupMinute - parse_now.minute) * 60
    - parse_now.second

\* C12 (future rule): when the group, read in the reference month, is a
\* date of that month lying more than 15 days (15 * 24 hours) after the
\* reference time, parse_metar_time returns the same day, hour and minute in
\* the month before, December of the year before for a January reference.
C12_FutureRule ==
    (/\ ParsedGroup
     /\ ClockInRange
     /\ GroupDay \in 1 .. CalendarDays(parse_now.year, parse_now.month)
     /\ SecondsAhead > 15 * 86400)
        => InPrecedingMonth

\* C13 (no raise): for a group with day 01 .. 31, hour 00 .. 23 and minute
\* 00 .. 59 parse_metar_time returns a timestamp of the calendar and raises
\* nothing.
C13_NeverRaises ==
    (/\ ParsedGroup
     /\ ClockInRange
     /\ GroupDay \in 1 .. 31)
        => /\ parse_result.kind = "time"
           /\ parse_result.time.day
                 <= CalendarDays(parse_result.time.year,
                                 parse_result.time.month)

-----------------------------------------------------------------------------
(* Properties of scan, checked under SpecScan *)

\* the request of the call succeeded and returned scan_data
Answered ==
    /\ pc = "scanned"
    /\ ~("ERROR" \in DOMAIN scan_result
           /\ scan_result.ERROR = "RequestException")

\* the EST date the call is about
TargetDate ==
    IF scan_trade_date = NoDate THEN est_today(scan_now) ELSE scan_trade_date

\* the instant t is on the target date, or not more than 12 hours before
\* the reference time
OnTargetDate(t) == est_date(t) = TargetDate
InWindow(t) == (Minutes(scan_now) - Minutes(t)) * 60 + scan_now.second <= 43200

\* the record o carries a T-field and a time: a six-digit group that reads
\* as a timestamp, or no group and a reportTime
HasTime(o) ==
    /\ "rawOb" \in DOMAIN o
    /\ o.rawOb.tfield # NoField
    /\ IF o.rawOb.time_group # NoGroup
       THEN parse_metar_time(o.rawOb, scan_now).kind = "time"
       ELSE "reportTime" \in DOMAIN o
TimeOf(o) ==
    IF o.rawOb.time_group # NoGroup
    THEN parse_metar_time(o.rawOb, scan_now).time
    ELSE o.reportTime

\* the record o yields a usable observation: for the target date, or for
\* the 12-hour window
Usable(o) == HasTime(o) /\ (OnTargetDate(TimeOf(o)) \/ InWindow(TimeOf(o)))

\* C14 (missing or malformed fields are not fatal): when the API answered and
\* some record yields a usable observation for the target date or the
\* 12-hour window, scan returns a result, not an ERROR; records with a
\* missing or malformed T-field or time are skipped.
C14_MalformedSkipped ==
    (Answered /\ \E i \in 1 .. Len(scan_data) : Usable(scan_data[i]))
        => Succeeded

\* C18 (rounding of the edge computation): the 'true' value of every
\* observation is c * 9/5 + 32 rounded half away from zero to a whole degree
\* Fahrenheit, and its 'displayed' value is r * 9/5 + 32 for c rounded half
\* away from zero to the whole degree Celsius r (2.5 C uses 3, 36.5 F gives
\* 37).
C18_HalfAwayInScan ==
    Succeeded =>
        \A o \in Members(scan_result.all_obs) :
            /\ NearestAwayFromZero(9 * o.temp_c + 1600, 50, o.true)
            /\ \E r \in (-100) .. 100 :
                  /\ NearestAwayFromZero(o.temp_c, 10, r)
                  /\ o.displayed = 18 * r + 320

\* the time of day in EST (UTC - 5 h) of the instant t, in minutes
ClockEST(t) == (60 * t.hour + t.minute + 1140) % 1440

\* C19 (daily extremes): in a result of scan, max_obs and min_obs are among
\* all_obs, MAX_TRUE is the 'true' of max_obs and at least the 'true' of every
\* observation of all_obs, MIN_TRUE is the 'true' of min_obs and at most every
\* one of them, the reported times are the times of max_obs and min_obs, and
\* TOTAL_OBS is the length of all_obs, at least 1.
C19_Extremes ==
    Succeeded =>
        /\ scan_result.max_obs \in Members(scan_result.all_obs)
        /\ scan_result.min_obs \in Members(scan_result.all_obs)
        /\ scan_result.MAX_TRUE = scan_result.max_obs.true
        /\ scan_result.MIN_TRUE = scan_result.min_obs.true
        /\ \A o \in Members(scan_result.all_obs) :
              /\ scan_result.MAX_TRUE >= o.true
              /\ scan_result.MIN_TRUE <= o.true
        /\ scan_result.MIN_TRUE <= scan_result.MAX_TRUE
        /\ scan_result.MAX_TIME_ET = ClockEST(scan_result.max_obs.utc_time)
        /\ scan_result.MAX_TIME_LOCAL = ClockEST(scan_result.max_obs.utc_time)
        /\ scan_result.MIN_TIME_ET = ClockEST(scan_result.min_obs.utc_time)
        /\ scan_result.MIN_TIME_LOCAL = ClockEST(scan_result.min_obs.utc_time)
        /\ scan_result.TOTAL_OBS = Len(scan_result.all_obs)
        /\ scan_result.TOTAL_OBS >= 1

\* two observations of February 3 EST: 28.1 C (83 F) at 04:00 and -2.5 C
\* (28 F) at 04:51; the maximum is the first and the minimum the second
C19_Witness ==
    /\ Succeeded
    /\ scan_result.TOTAL_OBS = 2
    /\ scan_result.MAX_TRUE = 83
    /\ scan_result.MIN_TRUE = 28
    /\ scan_result.MAX_TIME_ET = 240
    /\ scan_result.MIN_TIME_ET = 291
    /\ scan_result.max_obs = scan_result.all_obs[1]
    /\ scan_result.min_obs = scan_result.all_obs[2]

\* the decoded observations on the target date, and those of the last 12
\* hours
DecodedOnTargetDate ==
    SelectSeq(scan_obs, LAMBDA o : OnTargetDate(o.utc_time))
DecodedInWindow ==
    SelectSeq(scan_obs, LAMBDA o : InWindow(o.utc_time))

\* C20 (selection order): when some decoded observation is on the target
\* EST date, all_obs is the decoded observations of that date; when none is,
\* all_obs is the decoded observations of the last 12 hours; scan returns
\* ERROR only when both are empty; the station plays no part.
C20_SelectionOrder ==
    Answered =>
        IF DecodedOnTargetDate # << >>
        THEN Succeeded /\ scan_result.all_obs = DecodedOnTargetDate
        ELSE IF DecodedInWindow # << >>
        THEN Succeeded /\ scan_result.all_obs = DecodedInWindow
        ELSE ~Succeeded

-----------------------------------------------------------------------------
(* The batch loops: monitor_multiple_stations (Temperature_Prediction.py)   *)
(* and predict_multiple_locations (Daily_Temp.py).  The loop body of entry  *)
(* k is a sequence of steps with its own local variables.  SpecBatch runs   *)
(* the bodies one after the other, as the loops do; SpecConcurrent runs     *)
(* them as concurrent tasks on the same tracker / predictor object.         *)

\* the longest list given to a loop
MaxEntries == 2

\* stations: hourly, 5-minute, and one without entry in station_types
StationPool ==
    {[id |-> "KNYC", name |-> "NYC Central Park"],
     [id |-> "KMIA", name |-> "Miami Intl Airport"],
     [id |-> "KSFO", name |-> "San Francisco Intl"]}

\* the day of the run, 2024-02-03
RunDay == Ordinal(2024, 2, 3)

\* features of the observation API: 25.0 C at 18:00Z, 22.2 C at 15:00Z, a
\* null temperature, and a temperature without timestamp
FeatureWhole ==
    [value |-> << 250 >>,
     timestamp |-> [year |-> 2024, month |-> 2, day |-> 3,
                    hour |-> 18, minute |-> 0]]
FeatureTenths ==
    [value |-> << 222 >>,
     timestamp |-> [year |-> 2024, month |-> 2, day |-> 3,
                    hour |-> 15, minute |-> 0]]
FeatureNull == [value |-> Null]
FeatureNoTimestamp == [value |-> << 250 >>]

StationAnswers ==
    {[kind |-> "raise"], [kind |-> "json"]}
        \cup {[kind |-> "json", features |-> f] :
                f \in {<< >>,
                       << FeatureNull >>,
                       << FeatureWhole, FeatureTenths >>,
                       << FeatureNull, FeatureTenths >>,
                       << FeatureWhole, FeatureNoTimestamp >>}}

\* locations, coordinates in 1/10000 degree
LocationPool ==
    {[name |-> "New York", lat |-> 407829, lon |-> -739654],
     [name |-> "Los Angeles", lat |-> 339416, lon |-> -1184085]}

\* temperature_2m_max of the day at a point, in tenths of a degree
\* Fahrenheit, as the forecast API gives it for the model source; the
\* minimum is 10 degrees lower
forecast_at(lat, lon, source) ==
    LET ecmwf == IF lat = 407829
                 THEN (IF lon = -739654 THEN 415 ELSE 515)
                 ELSE (IF lon = -1184085 THEN 705 ELSE 605)
        high  == IF source = "ECMWF_IFS" THEN ecmwf ELSE ecmwf + 15
    IN  [high |-> high, low |-> high - 100]

\* the answer with the arrays filled
DailyAnswer(lat, lon, source) ==
    [kind |-> "daily", date |-> RunDay,
     high |-> << forecast_at(lat, lon, source).high >>,
     low  |-> << forecast_at(lat, lon, source).low >>]

\* what the forecast API can answer to a request for the point (lat, lon)
ForecastAnswers(lat, lon, source) ==
    {[kind |-> "raise"],
     [kind |-> "nodaily"],
     DailyAnswer(lat, lon, source),
     [kind |-> "daily", date |-> RunDay, high |-> Null, low |-> Null]}

Entries == DOMAIN w_pc

\* the locals of the loop bodies before they start
FreshLocals(n) ==
    /\ w_pc = [k \in 1 .. n |-> "start"]
    /\ w_df = [k \in 1 .. n |-> << >>]
    /\ w_ecmwf = [k \in 1 .. n |-> Null]
    /\ w_multi = [k \in 1 .. n |-> Null]
    /\ w_result = [k \in 1 .. n |-> [kind |-> "None"]]
    /\ w_disturbed = {}

\* tracker.monitor_multiple_stations(stations) is called
InitMonitor ==
    /\ pc = "monitor"
    /\ QuietCalls
    /\ stations \in ListsUpTo(StationPool, MaxEntries)
    /\ station_answers \in [1 .. Len(stations) -> StationAnswers]
    /\ today = RunDay
    /\ results = << >>
    /\ locations = << >>
    /\ FreshPredictor
    /\ predictions = << >>
    /\ FreshLocals(Len(stations))

\* predictor.predict_multiple_locations(locations) is called
InitPredict ==
    /\ pc = "predict"
    /\ QuietCalls
    /\ stations = << >>
    /\ station_answers = << >>
    /\ today = RunDay
    /\ results = << >>
    /\ locations \in ListsUpTo(LocationPool, MaxEntries)
    /\ FreshPredictor
    /\ predictions = << >>
    /\ FreshLocals(Len(locations))

InitBatch == InitMonitor \/ InitPredict

call_vars == << resolver_vars, history_vars, round_vars, compare_vars,
                scan_vars, parse_vars, trade_vars >>
input_vars == << stations, station_answers, today, locations >>
self_vars == << self_location, self_lat, self_lon >>

\* (variant: the data frame kept in an attribute of the tracker, which every
\* loop body reads, instead of a local)
FetchObservationsShared(k) ==
    /\ pc = "monitor"
    /\ w_pc[k] = "start"
    /\ w_df' = [j \in DOMAIN w_df |->
                  get_station_observations(stations[k].id, station_answers[k])]
    /\ w_pc' = [w_pc EXCEPT ![k] = "fetched"]
    /\ UNCHANGED << pc, call_vars, input_vars, self_vars, results, predictions,
                    w_ecmwf, w_multi, w_result, w_disturbed >>

\* df = self.get_station_observations(station_id, hours_back=24)
FetchObservations(k) ==
    /\ pc = "monitor"
    /\ w_pc[k] = "start"
    /\ w_df' = [w_df EXCEPT ![k] =
                  get_station_observations(stations[k].id, station_answers[k])]
    /\ w_pc' = [w_pc EXCEPT ![k] = "fetched"]
    /\ UNCHANGED << pc, call_vars, input_vars, self_vars, results, predictions,
                    w_ecmwf, w_multi, w_result, w_disturbed >>

\* (variant: high_range_max taken without the degree added to it, the
\* hourly "+ 2" becoming "+ 1")
TodayHighLowNoMargin(k) ==
    /\ pc = "monitor"
    /\ w_pc[k] = "fetched"
    /\ LET r == get_today_high_low(stations[k].id, stations[k].name,
                                   w_df[k], today)
       IN  w_result' = [w_result EXCEPT ![k] =
               IF r.kind = "None" THEN r
               ELSE [r EXCEPT !.high_range_max = @ - 100,
                              !.high_rounded_high =
                                  nws_round(r.high_range_max - 100, 100)]]
    /\ w_pc' = [w_pc EXCEPT ![k] = "computed"]
    /\ UNCHANGED << pc, call_vars, input_vars, self_vars, results, predictions,
                    w_df, w_ecmwf, w_multi, w_disturbed >>

\* (variant: high_range_min of a station that is not hourly taken from the
\* column temp_f_max)
TodayHighLowMinFromMax(k) ==
    /\ pc = "monitor"
    /\ w_pc[k] = "fetched"
    /\ LET r == get_today_high_low(stations[k].id, stations[k].name,
                                   w_df[k], today)
       IN  w_result' = [w_result EXCEPT ![k] =
               IF r.kind = "None" \/ r.station_type = "hourly" THEN r
               ELSE [r EXCEPT !.high_range_min = r.high_range_max - 100,
                              !.high_rounded_low =
                                  nws_round(r.high_range_max - 100, 100)]]
    /\ w_pc' = [w_pc EXCEPT ![k] = "computed"]
    /\ UNCHANGED << pc, call_vars, input_vars, self_vars, results, predictions,
                    w_df, w_ecmwf, w_multi, w_disturbed >>

\* the rest of get_today_high_low, from "if df.empty" to the return
TodayHighLow(k) ==
    /\ pc = "monitor"
    /\ w_pc[k] = "fetched"
    /\ w_result' = [w_result EXCEPT ![k] =
                      get_today_high_low(stations[k].id, stations[k].name,
                                         w_df[k], today)]
    /\ w_pc' = [w_pc EXCEPT ![k] = "computed"]
    /\ UNCHANGED << pc, call_vars, input_vars, self_vars, results, predictions,
                    w_df, w_ecmwf, w_multi, w_disturbed >>

\* if result: results.append(result)
AppendResult(k) ==
    /\ pc = "monitor"
    /\ w_pc[k] = "computed"
    /\ results' = IF w_result[k].kind = "None" THEN results
                  ELSE Append(results, w_result[k])
    /\ w_pc' = [w_pc EXCEPT ![k] = "done"]
    /\ UNCHANGED << pc, call_vars, input_vars, self_vars, predictions,
                    w_df, w_ecmwf, w_multi, w_result, w_disturbed >>

\* return results
MonitorReturn ==
    /\ pc = "monitor"
    /\ \A k \in Entries : w_pc[k] = "done"
    /\ pc' = "returned"
    /\ UNCHANGED << call_vars, run_vars >>

\* the loop bodies that have assigned self.location and not yet built
\* their dictionary
InFlight ==
    {j \in Entries :
        w_pc[j] \in {"named", "lat_set", "lon_set", "ecmwf_done", "multi_done"}}

\* self.location = loc['name']
SetLocation(k) ==
    /\ pc = "predict"
    /\ w_pc[k] = "start"
    /\ self_location' = locations[k].name
    /\ w_pc' = [w_pc EXCEPT ![k] = "named"]
    /\ w_disturbed' = w_disturbed \cup (InFlight \ {k})
    /\ UNCHANGED << pc, call_vars, input_vars, self_lat, self_lon, results,
                    predictions, w_df, w_ecmwf, w_multi, w_result >>

\* self.lat = loc['lat']
SetLat(k) ==
    /\ pc = "predict"
    /\ w_pc[k] = "named"
    /\ self_lat' = locations[k].lat
    /\ w_pc' = [w_pc EXCEPT ![k] = "lat_set"]
    /\ w_disturbed' = w_disturbed \cup (InFlight \ {k})
    /\ UNCHANGED << pc, call_vars, input_vars, self_location, self_lon,
                    results, predictions, w_df, w_ecmwf, w_multi, w_result >>

\* self.lon = loc['lon']
SetLon(k) ==
    /\ pc = "predict"
    /\ w_pc[k] = "lat_set"
    /\ self_lon' = locations[k].lon
    /\ w_pc' = [w_pc EXCEPT ![k] = "lon_set"]
    /\ w_disturbed' = w_disturbed \cup (InFlight \ {k})
    /\ UNCHANGED << pc, call_vars, input_vars, self_location, self_lat,
                    results, predictions, w_df, w_ecmwf, w_multi, w_result >>

\* ecmwf = self.fetch_open_meteo_ecmwf(): the request carries self.lat and
\* self.lon as they are when it is made
FetchEcmwf(k) ==
    /\ pc = "predict"
    /\ w_pc[k] = "lon_set"
    /\ \E answer \in ForecastAnswers(self_lat, self_lon, "ECMWF_IFS") :
          w_ecmwf' = [w_ecmwf EXCEPT ![k] =
                        fetch_open_meteo(answer, "ECMWF_IFS")]
    /\ w_pc' = [w_pc EXCEPT ![k] = "ecmwf_done"]
    /\ UNCHANGED << pc, call_vars, input_vars, self_vars, results,
                    predictions, w_df, w_multi, w_result, w_disturbed >>

\* multi = self.fetch_open_meteo_multi_model()
FetchMulti(k) ==
    /\ pc = "predict"
    /\ w_pc[k] = "ecmwf_done"
    /\ \E answer \in ForecastAnswers(self_lat, self_lon, "Multi_Model") :
          w_multi' = [w_multi EXCEPT ![k] =
                        fetch_open_meteo(answer, "Multi_Model")]
    /\ w_pc' = [w_pc EXCEPT ![k] = "multi_done"]
    /\ UNCHANGED << pc, call_vars, input_vars, self_vars, results,
                    predictions, w_df, w_ecmwf, w_result, w_disturbed >>

\* the rest of get_today_prediction: None, the dictionary built with
\* self.location as it is now, or the TypeError of np.mean, which nothing
\* catches
BuildPrediction(k) ==
    /\ pc = "predict"
    /\ w_pc[k] = "multi_done"
    /\ LET pred == get_today_prediction(self_location, w_ecmwf[k], w_multi[k])
       IN  IF pred.kind = "TypeError"
           THEN /\ w_pc' = [w_pc EXCEPT ![k] = "raised"]
                /\ UNCHANGED w_result
           ELSE /\ w_pc' = [w_pc EXCEPT ![k] = "built"]
                /\ w_result' = [w_result EXCEPT ![k] = pred]
    /\ UNCHANGED << pc, call_vars, input_vars, self_vars, results,
                    predictions, w_df, w_ecmwf, w_multi, w_disturbed >>

\* if pred: predictions.append(pred)
AppendPrediction(k) ==
    /\ pc = "predict"
    /\ w_pc[k] = "built"
    /\ predictions' = IF w_result[k].kind = "None" THEN predictions
                      ELSE Append(predictions, w_result[k])
    /\ w_pc' = [w_pc EXCEPT ![k] = "done"]
    /\ UNCHANGED << pc, call_vars, input_vars, self_vars, results,
                    w_df, w_ecmwf, w_multi, w_result, w_disturbed >>

\* return df (the rows are predictions) or the empty frame
PredictReturn ==
    /\ pc = "predict"
    /\ \A k \in Entries : w_pc[k] = "done"
    /\ pc' = "returned"
    /\ UNCHANGED << call_vars, run_vars >>

\* the exception of a loop body leaves predict_multiple_locations
PredictRaise ==
    /\ pc = "predict"
    /\ \E k \in Entries : w_pc[k] = "raised"
    /\ \A k \in Entries : w_pc[k] \in {"start", "raised", "done"}
    /\ pc' = "raised"
    /\ UNCHANGED << call_vars, run_vars >>

\* one step of the loop body of entry k
BodyStep(k) ==
    \/ FetchObservations(k)
    \/ TodayHighLow(k)
    \/ AppendResult(k)
    \/ SetLocation(k)
    \/ SetLat(k)
    \/ SetLon(k)
    \/ FetchEcmwf(k)
    \/ FetchMulti(k)
    \/ BuildPrediction(k)
    \/ AppendPrediction(k)

\* for loc in locations / for station in stations: the body of entry k runs
\* when the bodies of the entries before it have ended
Turn(k) == \A j \in 1 .. (k - 1) : w_pc[j] = "done"

Sequential == \E k \in Entries : Turn(k) /\ BodyStep(k)

NextBatch == Sequential \/ MonitorReturn \/ PredictReturn \/ PredictRaise

SpecBatch == InitBatch /\ [][NextBatch]_vars

\* the bodies run as concurrent tasks: any body that has not ended takes
\* the next step
Concurrent == \E k \in Entries : BodyStep(k)

NextConcurrent == Concurrent \/ MonitorReturn \/ PredictReturn \/ PredictRaise

\* the concurrent tasks are those of different stations, of different
\* locations
Different(entries) ==
    \A i, j \in DOMAIN entries : i # j => entries[i] # entries[j]

InitConcurrent == InitBatch /\ Different(stations) /\ Different(locations)

SpecConcurrent == InitConcurrent /\ [][NextConcurrent]_vars

-----------------------------------------------------------------------------
(* Properties of the batch loops *)

\* what the sequential loop gives for entry k of stations: the station's own
\* answer through get_station_observations and get_today_high_low
SequentialResult(k) ==
    get_today_high_low(stations[k].id, stations[k].name,
        get_station_observations(stations[k].id, station_answers[k]), today)

\* what the sequential loop gives for entry k of locations when the
\* requests of its body fail or succeed as they did: the forecast of its
\* own coordinates under its own name
OwnFetch(k, fetched, source) ==
    IF fetched = Null THEN Null
    ELSE fetch_open_meteo(
             DailyAnswer(locations[k].lat, locations[k].lon, source), source)
SequentialPrediction(k) ==
    get_today_prediction(locations[k].name,
                         OwnFetch(k, w_ecmwf[k], "ECMWF_IFS"),
                         OwnFetch(k, w_multi[k], "Multi_Model"))

\* entry k of stations has its result; entry k of locations has a prediction
HasResult(k) ==
    k \in DOMAIN stations /\ w_pc[k] \in {"computed", "done"}
HasPrediction(k) ==
    /\ k \in DOMAIN locations
    /\ w_pc[k] \in {"built", "done"}
    /\ w_result[k].kind = "prediction"

NoData(k) ==
    \/ station_answers[k].kind = "raise"
    \/ "features" \notin DOMAIN station_answers[k]
    \/ \A i \in 1 .. Len(station_answers[k].features) :
          station_answers[k].features[i].value = Null

\* C17 (a failed entry is isolated): no exception leaves a loop; each loop
\* returns after the body of every entry has run; an entry whose requests
\* fail or yield no data gives no result; the list returned holds the
\* results of the other entries, each under its own station or location, in
\* the order of the input.
C17_FailureIsolated ==
    /\ pc # "raised"
    /\ \A k \in Entries : w_pc[k] # "raised"
    /\ pc = "returned" =>
          /\ \A k \in Entries : w_pc[k] = "done"
          /\ results \o predictions
                = SelectSeq(w_result, LAMBDA r : r.kind # "None")
    /\ \A k \in Entries :
          /\ (HasResult(k) /\ NoData(k)) => w_result[k].kind = "None"
          /\ (HasResult(k) /\ w_result[k].kind = "result")
                => /\ w_result[k].station_id = stations[k].id
                   /\ w_result[k].station = stations[k].name
          /\ (k \in DOMAIN locations /\ w_pc[k] \in {"built", "done"}
                /\ w_ecmwf[k] = Null /\ w_multi[k] = Null)
                => w_result[k].kind = "None"
          /\ HasPrediction(k) => w_result[k].location = locations[k].name


-----------------------------------------------------------------------------
(* SpecHighLow: monitor_multiple_stations given one station, whose answer   *)
(* holds one or two observations with temperatures of a range.               *)

\* the whole readings go from -TrackBelow to TrackMax degrees Celsius
TrackBelow == 25
TrackMax == 30

\* temperature values of the observation API, in tenths of a degree: every
\* whole degree of the range, and values in tenths, three of which convert
\* to a Fahrenheit value that ends in .5 (-22.5 C = -8.5 F, -2.5 C = 27.5 F,
\* 2.5 C = 36.5 F)
TrackTemps ==
    {10 * c : c \in (-TrackBelow) .. TrackMax} \cup {-225, -178, -25, 25, 222}

\* timestamps: 02:00Z (the evening before the day of the run in every
\* station's local time), 15:00Z and 18:00Z of the day of the run
TrackEarly ==
    {[year |-> 2024, month |-> 2, day |-> 3, hour |-> 2, minute |-> 0],
     [year |-> 2024, month |-> 2, day |-> 3, hour |-> 15, minute |-> 0]}
TrackLate == [year |-> 2024, month |-> 2, day |-> 3, hour |-> 18, minute |-> 0]

TrackAnswers ==
    {[kind |-> "json",
      features |-> << [value |-> << t >>, timestamp |-> ts] >>] :
        t \in TrackTemps, ts \in TrackEarly}
    \cup
    {[kind |-> "json",
      features |-> << [value |-> << t1 >>, timestamp |-> ts],
                      [value |-> << t2 >>, timestamp |-> TrackLate] >>] :
        t1 \in TrackTemps, t2 \in TrackTemps, ts \in TrackEarly}

InitHighLow ==
    /\ pc = "monitor"
    /\ QuietCalls
    /\ stations \in {<< s >> : s \in StationPool}
    /\ station_answers \in [{1} -> TrackAnswers]
    /\ today = RunDay
    /\ results = << >>
    /\ locations = << >>
    /\ FreshPredictor
    /\ predictions = << >>
    /\ FreshLocals(1)

\* the body of the loop of monitor_multiple_stations
StationStep ==
    \E k \in Entries :
        /\ Turn(k)
        /\ (FetchObservations(k) \/ TodayHighLow(k) \/ AppendResult(k))

NextHighLow == StationStep \/ MonitorReturn

SpecHighLow == InitHighLow /\ [][NextHighLow]_vars

\* the rows of the data frame of entry k, once fetched
Fetched(k) == k \in DOMAIN stations /\ w_pc[k] # "start"

\* C21 (station type selects the ambiguity model): the resolver is applied
\* only to the observations of a station typed '5-minute'; for a station
\* typed 'hourly' or absent from the type table every observation has
\* temp_f_likely = temp_f_min = temp_f_max = temp_f_reported and confidence
\* 'high'.
C21_TypeSelectsModel ==
    \A k \in Entries : Fetched(k) =>
        \A i \in 1 .. Len(w_df[k]) :
            LET o == w_df[k][i]
                resolved == interpret_5min_station_temp(o.temp_c,
                                                        o.temp_f_reported)
            IN  /\ o.temp_f_reported = 18 * o.temp_c + 3200
                /\ station_types(stations[k].id) = "5-minute" =>
                      /\ o.temp_f_likely = resolved.likely_f
                      /\ o.temp_f_min = resolved.min_f
                      /\ o.temp_f_max = resolved.max_f
                      /\ o.temp_confidence = resolved.confidence
                /\ station_types(stations[k].id) # "5-minute" =>
                      /\ o.temp_f_likely = o.temp_f_reported
                      /\ o.temp_f_min = o.temp_f_reported
                      /\ o.temp_f_max = o.temp_f_reported
                      /\ o.temp_confidence = "high"

\* KSFO, absent from the type table, reports 21 C: the row keeps 69.8 F in
\* every column, where the resolver would have given 69 to 70 F
C21_Witness ==
    /\ Len(stations) = 1
    /\ stations[1].id = "KSFO"
    /\ w_pc[1] = "fetched"
    /\ Len(w_df[1]) = 1
    /\ w_df[1][1].temp_c = 210
    /\ w_df[1][1].temp_f_min = 6980
    /\ w_df[1][1].temp_f_max = 6980
    /\ w_df[1][1].temp_confidence = "high"
    /\ celsius_to_fahrenheit_range(210) = << 69, 70 >>

\* entry k has a result dictionary
Returned(k) == HasResult(k) /\ w_result[k].kind = "result"

\* C27 (the high range never rounds to one value): in every result of
\* get_today_high_low, whatever the station type and the observations,
\* high_rounded_high >= high_rounded_low + 1, so the two ends of the high
\* range never round to the same value.
C27_NeverConfident ==
    \A k \in Entries : Returned(k) =>
        /\ w_result[k].high_rounded_high >= w_result[k].high_rounded_low + 1
        /\ w_result[k].high_rounded_high # w_result[k].high_rounded_low

\* KMIA with the single reading 25 C, whose only candidate is 77 F: the range
\* is 77 to 78 F and its ends round to 77 and 78
C27_Witness ==
    /\ Len(stations) = 1
    /\ stations[1].id = "KMIA"
    /\ w_pc[1] = "computed"
    /\ Len(w_df[1]) = 1
    /\ w_df[1][1].temp_c = 250
    /\ w_result[1].kind = "result"
    /\ w_result[1].high_range_min = 7700
    /\ w_result[1].high_range_max = 7800
    /\ w_result[1].high_rounded_low = 77
    /\ w_result[1].high_rounded_high = 78

\* C28 (range containment): in every result of get_today_high_low, for
\* hourly, 5-minute and untyped stations, high_range_min <= high_observed <=
\* high_range_max, low_range_min <= low_observed <= low_range_max and
\* high_rounded_low <= high_rounded_high.
C28_Containment ==
    \A k \in Entries : Returned(k) =>
        /\ w_result[k].high_range_min <= w_result[k].high_observed
        /\ w_result[k].high_observed <= w_result[k].high_range_max
        /\ w_result[k].low_range_min <= w_result[k].low_observed
        /\ w_result[k].low_observed <= w_result[k].low_range_max
        /\ w_result[k].high_rounded_low <= w_result[k].high_rounded_high

\* KMIA with the readings 21 C (69 to 70 F, likely 69.5) and 10 C (50 F): the
\* observed high lies strictly inside its range
C28_Witness ==
    /\ Len(stations) = 1
    /\ stations[1].id = "KMIA"
    /\ w_pc[1] = "computed"
    /\ Len(w_df[1]) = 2
    /\ w_result[1].kind = "result"
    /\ w_result[1].high_range_min = 6900
    /\ w_result[1].high_observed = 6950
    /\ w_result[1].high_range_max = 7100
    /\ w_result[1].low_range_min = 5000
    /\ w_result[1].low_observed = 5000
    /\ w_result[1].low_range_max = 5000


-----------------------------------------------------------------------------
(* The ensemble of get_today_prediction, checked under SpecBatch *)

\* the loop body of entry k of locations has gone through the construction
\* of its prediction
Predicted(k) ==
    k \in DOMAIN locations /\ w_pc[k] \in {"built", "done", "raised"}

\* h is a whole-degree rounding of n/d (d > 0): no integer is nearer
RoundingOf(h, n, d) == 2 * Abs(d * h - n) <= d

\* key of the prediction of entry k is the rounding of the 60%/40% mix of
\* the two sources, or of the one source that succeeded
WeightedOf(k, key) ==
    LET e == w_ecmwf[k]
        m == w_multi[k]
    IN  IF e # Null /\ m # Null
        THEN RoundingOf(w_result[k][key], 3 * e[1][key][1] + 2 * m[1][key][1], 50)
        ELSE IF e # Null
        THEN RoundingOf(w_result[k][key], e[1][key][1], 10)
        ELSE RoundingOf(w_result[k][key], m[1][key][1], 10)

\* C22 (ensemble weighting): get_today_prediction returns None exactly when
\* both fetches failed; when both succeeded the consensus high (and low) is
\* the whole-degree rounding of (3 * ECMWF + 2 * multi) / 5; when one
\* succeeded it is the rounding of that source's value; the date is that of
\* ECMWF when available, else that of the multi-model result.
C22_Ensemble ==
    \A k \in Entries : Predicted(k) =>
        IF w_ecmwf[k] = Null /\ w_multi[k] = Null
        THEN w_pc[k] # "raised" /\ w_result[k].kind = "None"
        ELSE /\ w_pc[k] # "raised"
             /\ w_result[k].kind = "prediction"
             /\ w_result[k].date = IF w_ecmwf[k] # Null
                                   THEN w_ecmwf[k][1].date
                                   ELSE w_multi[k][1].date
             /\ WeightedOf(k, "high")
             /\ WeightedOf(k, "low")


-----------------------------------------------------------------------------
(* SpecTrade: one call of calculate_optimal_trading_time or of               *)
(* check_if_ready_to_trade (Temp_Trading_Time.py), for a station, an answer  *)
(* of the observation API holding the observations of some days, and a      *)
(* reading of the clock.                                                     *)

\* the most days with enough observations in one answer
MaxDays == 2

\* stations: hourly, 5-minute at UTC-5, 5-minute at UTC-8, and one that
\* self.stations does not hold
TradePool == {"KNYC", "KMIA", "KLAX", "KXYZ"}

\* the UTC timestamp of the local time hour:minute of February day, 2024 at
\* the station
LocalStamp(station_id, day, hour, minute) ==
    LET utc_hour == hour - station_info(station_id).utc_offset
    IN  IF utc_hour >= 24
        THEN [year |-> 2024, month |-> 2, day |-> day + 1,
              hour |-> utc_hour - 24, minute |-> minute]
        ELSE [year |-> 2024, month |-> 2, day |-> day,
              hour |-> utc_hour, minute |-> minute]

\* local times << hour, minute >> of the high and of the low of a day
HighClocks == {<< 14, 10 >>, << 15, 10 >>, << 23, 10 >>}
LowClocks == {<< 6, 0 >>, << 5, 31 >>, << 23, 30 >>}

\* the features of a day with twelve observations: 10 C at the time of the
\* low, 30 C at the time of the high, and 20 C at five past every hour from
\* 08:05 to 17:05
DayFeatures(station_id, day, high_clock, low_clock) ==
    << [value |-> << 100 >>,
        timestamp |-> LocalStamp(station_id, day, low_clock[1], low_clock[2])],
       [value |-> << 300 >>,
        timestamp |-> LocalStamp(station_id, day, high_clock[1],
                                 high_clock[2])] >>
    \o [i \in 1 .. 10 |->
          [value |-> << 200 >>,
           timestamp |-> LocalStamp(station_id, day, 7 + i, 5)]]

\* the features of a day with two observations, both more extreme than any
\* of a day with twelve
ShortDay(station_id, day) ==
    << [value |-> << 350 >>,
        timestamp |-> LocalStamp(station_id, day, 12, 0)],
       [value |-> << 50 >>,
        timestamp |-> LocalStamp(station_id, day, 3, 0)] >>

\* the features of the days 1 .. Len(plan), the day d having its high and
\* low at plan[d]
RECURSIVE PlanFeatures(_, _, _)
PlanFeatures(station_id, plan, d) ==
    IF d > Len(plan) THEN << >>
    ELSE DayFeatures(station_id, d, plan[d][1], plan[d][2])
             \o PlanFeatures(station_id, plan, d + 1)

DayPlans ==
    UNION {[1 .. n -> HighClocks \X LowClocks] : n \in 1 .. MaxDays}

\* what the observation API can answer for the station
TradeAnswers(station_id) ==
    {[kind |-> "raise"], [kind |-> "json"]}
    \cup {[kind |-> "json", features |-> f] :
            f \in {<< >>, << FeatureNull >>, << FeatureNoTimestamp >>,
                   ShortDay(station_id, 1)}}
    \cup {[kind |-> "json", features |-> PlanFeatures(station_id, plan, 1)] :
            plan \in DayPlans}
    \cup {[kind |-> "json",
           features |-> PlanFeatures(station_id, plan, 1)
                            \o ShortDay(station_id, Len(plan) + 1)] :
            plan \in DayPlans}

TradeTypes == {"low", "high", "both"}

\* readings of the clock at "now = datetime.now()": 06:15:00, 15:00:00 and
\* 23:59:59; the later readings follow at once or one second later
TradeClocks == {22500, 54000, 86399}

InitTrade ==
    /\ pc = "trade"
    /\ Quiet

\* calculate_optimal_trading_time(station_id), as generate_trading_schedule
\* calls it
CalculateCall(station_id, answer) ==
    /\ pc' = "calculated"
    /\ trade_station' = station_id
    /\ trade_answer' = answer
    /\ trade_calc' = calculate_optimal_trading_time(station_id, answer)
    /\ UNCHANGED << trade_type, trade_now, trade_later, trade_ready,
                    resolver_vars, history_vars, round_vars, compare_vars,
                    scan_vars, parse_vars, run_vars >>

\* check_if_ready_to_trade(station_id, trade_type)
ReadyCall(station_id, answer, type, now, later) ==
    /\ pc' = "checked"
    /\ trade_station' = station_id
    /\ trade_answer' = answer
    /\ trade_type' = type
    /\ trade_now' = now
    /\ trade_later' = later
    /\ trade_calc' = calculate_optimal_trading_time(station_id, answer)
    /\ trade_ready' = check_if_ready_to_trade(station_id, answer, type,
                                              now, later)
    /\ UNCHANGED << resolver_vars, history_vars, round_vars, compare_vars,
                    scan_vars, parse_vars, run_vars >>

NextTrade ==
    /\ pc = "trade"
    /\ \E station_id \in TradePool :
          \E answer \in TradeAnswers(station_id) :
              \/ CalculateCall(station_id, answer)
              \/ \E type \in TradeTypes, now \in TradeClocks :
                    \E later \in {now, now + 1} :
                        ReadyCall(station_id, answer, type, now, later)

SpecTrade == InitTrade /\ [][NextTrade]_vars

\* a dictionary was returned by calculate_optimal_trading_time
Calculated == pc \in {"calculated", "checked"} /\ trade_calc.kind = "result"

\* minutes from midnight of a printed clock time
ClockMinutes(c) == 60 * c.hour + c.minute

\* C24 (optimal time = typical time + data delay): in every result of
\* calculate_optimal_trading_time, optimal_high_time is exactly
\* data_delay_minutes later than avg_high_time and optimal_low_time exactly
\* data_delay_minutes later than avg_low_time, data_delay_minutes being 15
\* for a '5-minute' station and 60 otherwise.
C24_OptimalIsTypicalPlusDelay ==
    Calculated =>
        /\ trade_calc.data_delay_minutes =
              IF trade_calc.station_type = "5-minute" THEN 15 ELSE 60
        /\ ClockMinutes(trade_calc.optimal_high_time)
              = ClockMinutes(trade_calc.avg_high_time)
                  + trade_calc.data_delay_minutes
        /\ ClockMinutes(trade_calc.optimal_low_time)
              = ClockMinutes(trade_calc.avg_low_time)
                  + trade_calc.data_delay_minutes

\* the time of day of now is at or past a printed clock time
AtOrPast(c) == trade_now % 86400 >= 60 * ClockMinutes(c)

\* check_if_ready_to_trade returned True
ReturnedTrue == trade_ready.kind = "return" /\ trade_ready.ready

\* C23 (readiness): with trade_type 'both' check_if_ready_to_trade returns
\* True only if the current time is at or past both the optimal low time and
\* the optimal high time of the station; with 'low' (resp. 'high') it
\* returns True iff the current time is at or past the optimal low (resp.
\* high) time.
C23_ReadyOnlyPastOptimal ==
    (pc = "checked" /\ trade_calc.kind = "result") =>
        /\ trade_type = "both" =>
              (ReturnedTrue =>
                  /\ AtOrPast(trade_calc.optimal_low_time)
                  /\ AtOrPast(trade_calc.optimal_high_time))
        /\ trade_type = "low" =>
              (ReturnedTrue <=> AtOrPast(trade_calc.optimal_low_time))
        /\ trade_type = "high" =>
              (ReturnedTrue <=> AtOrPast(trade_calc.optimal_high_time))


-----------------------------------------------------------------------------
(* Reachable confidence values of the resolver, checked under Spec *)

\* C25 (reachable confidence values): for a whole-number temp_c the
\* candidates are 1 or 2 consecutive integers, so max - min <= 1 and
\* interpret_5min_station_temp returns 'high'; 'medium' is returned for no
\* input; 'low' is returned exactly when temp_c is not a whole number, and
\* then the candidate list is empty.
C25_ReachableConfidence ==
    /\ (Resolved /\ WholeReading) =>
          /\ Len(possible_f) \in {1, 2}
          /\ \A i \in 1 .. (Len(possible_f) - 1) :
                possible_f[i + 1] = possible_f[i] + 1
    /\ (Resolved /\ ~WholeReading) => possible_f = << >>
    /\ pc = "interpreted" =>
          /\ WholeReading => result.confidence = "high"
          /\ result.confidence # "medium"
          /\ result.confidence = "low" <=> ~WholeReading

\* 22.5 C has no candidate and is given confidence 'low'
C25_Witness ==
    /\ pc = "interpreted"
    /\ temp_c = 225
    /\ ~WholeReading
    /\ possible_f = << >>
    /\ result.confidence = "low"
    /\ result.min_f = 7250

-----------------------------------------------------------------------------
(* SpecOrder: the resolver applied to the whole readings of two              *)
(* observations, one after the other; the first call is kept for comparison. *)

InitOrder ==
    /\ pc = "order"
    /\ Quiet

\* interpret_5min_station_temp(temp_c, temp_f_reported) for the whole
\* reading c of the next observation
ResolveNext(c) ==
    /\ pc \in {"order", "resolved one"}
    /\ pc' = IF pc = "order" THEN "resolved one" ELSE "resolved two"
    /\ prev_temp_c' = temp_c
    /\ prev_possible' = possible_f
    /\ prev_result' = result
    /\ temp_c' = 10 * c
    /\ temp_f_reported' = naive_fahrenheit(10 * c)
    /\ possible_f' = celsius_to_fahrenheit_range(10 * c)
    /\ result' = interpret_5min_station_temp(10 * c, naive_fahrenheit(10 * c))
    /\ UNCHANGED << f_orig, round_vars, compare_vars, scan_vars,
                    parse_vars, run_vars, trade_vars >>

NextOrder == \E c \in (-CBelow) .. CMax : ResolveNext(c)

SpecOrder == InitOrder /\ [][NextOrder]_vars

\* two calls have been made
TwoResolved == pc = "resolved two"

\* the tuple a is below the tuple b in likely value, minimum and maximum
TupleBelow(a, b) ==
    a.likely_f < b.likely_f /\ a.min_f < b.min_f /\ a.max_f < b.max_f

\* C26 (order-preserving resolver, disjoint candidate sets): for whole
\* readings c1 < c2 every candidate of celsius_to_fahrenheit_range(c1) is
\* strictly less than every candidate of celsius_to_fahrenheit_range(c2),
\* so min, max and likely value are strictly increasing in the reading.
C26_OrderPreserving ==
    TwoResolved =>
        /\ prev_temp_c < temp_c =>
              /\ \A f1 \in Members(prev_possible), f2 \in Members(possible_f) :
                    f1 < f2
              /\ TupleBelow(prev_result, result)
        /\ temp_c < prev_temp_c =>
              /\ \A f1 \in Members(possible_f), f2 \in Members(prev_possible) :
                    f1 < f2
              /\ TupleBelow(result, prev_result)
        /\ Members(prev_possible) # {}
        /\ Members(possible_f) # {}

\* 20 C (68 F) resolved after 21 C (69 to 70 F)
C26_Witness ==
    /\ pc = "resolved two"
    /\ prev_temp_c = 210
    /\ temp_c = 200
    /\ prev_possible = << 69, 70 >>
    /\ possible_f = << 68 >>
    /\ prev_result.min_f = 6900
    /\ result.max_f = 6800


-----------------------------------------------------------------------------
(* Bounds of the decoded timestamp, checked under SpecParse *)

\* seconds from the reference time to the timestamp returned
SecondsAfterReference ==
    60 * (Minutes(parse_result.time) - Minutes(parse_now)) - parse_now.second

\* the timestamp returned lies in the month of the reference time or in the
\* month before it
InReferenceOrPrecedingMonth ==
    \/ /\ parse_result.time.year = parse_now.year
       /\ parse_result.time.month = parse_now.month
    \/ /\ parse_now.month > 1
       /\ parse_result.time.year = parse_now.year
       /\ parse_result.time.month = parse_now.month - 1
    \/ /\ parse_now.month = 1
       /\ parse_result.time.year = parse_now.year - 1
       /\ parse_result.time.month = 12

\* C29 (bounds of the decoded timestamp): whenever parse_metar_time returns
\* a value for a reference time and a DDHHMMZ group, the value has the day
\* of month, hour and minute of the group, lies in the reference's month or
\* in the month before it, and is less than 16 days after the reference
\* time; a text without a six-digit 'Z' group yields None.
C29_DecodedBounds ==
    /\ (pc = "parsed" /\ parse_raw.time_group = NoGroup)
          => parse_result.kind = "None"
    /\ (ParsedGroup /\ parse_result.kind = "time") =>
          /\ parse_result.time.day = GroupDay
          /\ parse_result.time.hour = GroupHour
          /\ parse_result.time.minute = GroupMinute
          /\ InReferenceOrPrecedingMonth
          /\ SecondsAfterReference < 16 * 86400

\* reference 2024-02-03T10:00:00Z and 182000Z give February 18, 20:00, which
\* is 15 days and 10 hours after the reference
C29_Witness ==
    /\ ParsedGroup
    /\ parse_now = [year |-> 2024, month |-> 2, day |-> 3,
                    hour |-> 10, minute |-> 0, second |-> 0]
    /\ parse_raw.time_group = << 18, 20, 0 >>
    /\ parse_result.kind = "time"
    /\ parse_result.time.month = 2
    /\ parse_result.time.day = 18
    /\ SecondsAfterReference = 15 * 86400 + 36000

=============================================================================
